---- MODULE Spec2Model ----
(***************************************************************************)
(* Model of the WordPress auth bridge (createWordPressAuthBridge: the      *)
(* form-login variant and the basic-auth variant of src/src/index.ts) and  *)
(* of the REST client's auto-pagination (getAll* / fetchAPIPaginated).     *)
(***************************************************************************)
EXTENDS Integers, Sequences, FiniteSets, TLC

\* ------------------------------------------------------------------------
\* Bounds
\* ------------------------------------------------------------------------
MaxSessions == 2
MaxTicks == 2
MaxTotal == 250
MaxSegs == 4
MaxCookies == 2
MaxPosts == 2

\* ------------------------------------------------------------------------
\* Program constants
\* ------------------------------------------------------------------------
DEFAULT_COOKIE_NAME == "wp_astro_auth"
DEFAULT_SESSION_DURATION_SECONDS == 43200
WORDPRESS_TEST_COOKIE_NAME == "wordpress_test_cookie"
WORDPRESS_TEST_COOKIE_VALUE == "WP Cookie check"
MsPerSecond == 1000
PER_PAGE == 100

\* ------------------------------------------------------------------------
\* Inputs and the origin (WordPress) as seen through its responses
\* ------------------------------------------------------------------------
SessionIds == 1..MaxSessions
LoginProcs == {1}
ResolveProcs == {1}
Variants == {"form", "basic"}
\* the configuration leaves sessionDurationSeconds out
NotConfigured == -1

\* sessionDurationSeconds of the bridge configuration
ConfigDurations == {NotConfigured, 0, 1, 2}
\* the sessionId argument of the plain helpers; 0 stands for undefined / ""
SessionIdArgs == {0} \cup SessionIds

Users == {1, 2}
MaxUsernameLength == 320
MaxPasswordLength == 512

\* String.prototype.repeat
RECURSIVE Repeat(_, _)
Repeat(str, n) ==
  IF n = 0 THEN ""
  ELSE IF n % 2 = 1 THEN str \o Repeat(str, n - 1)
  ELSE LET half == Repeat(str, n \div 2) IN half \o half

\* a password one character over the limit
LongPassword == Repeat("x", MaxPasswordLength + 1)

\* a submitted payload: the two fields, and the names of any further fields
RawInput(u, pw, extra) == [usernameOrEmail |-> u, password |-> pw, extra |-> extra]

\* payloads callers submit to the login action
LoginInputs ==
  { RawInput("alice@wp.test", "pwA", {}),
    RawInput(" alice@wp.test ", "pwA", {}),
    RawInput("bob@wp.test", "pwB", {}),
    RawInput("alice@wp.test", "bad", {}),
    RawInput("alice", "pwA", {}),
    RawInput("", "pwA", {}),
    RawInput("   ", "pwA", {}),
    RawInput("alice@wp.test", "", {}),
    RawInput("alice@wp.test", LongPassword, {}),
    RawInput("alice@wp.test", "pwA", {"rememberMe"}) }

\* z.string().trim() on the user names submitted
Trim(str) ==
  IF str = "   " THEN ""
  ELSE IF str = " alice@wp.test " THEN "alice@wp.test"
  ELSE str

\* z.string().email() on the user names submitted
IsEmail(str) == str \in {"alice@wp.test", "bob@wp.test"}

\* the user the origin knows under these credentials, 0 when it knows none
OriginUserOf(input) ==
  IF input.usernameOrEmail \in {"alice", "alice@wp.test"} /\ input.password = "pwA"
  THEN 1
  ELSE IF input.usernameOrEmail = "bob@wp.test" /\ input.password = "pwB" THEN 2
  ELSE 0

OriginToken(u) == IF u = 1 THEN "tok1" ELSE "tok2"

\* A Set-Cookie value is <<name, value, attributes>>; a response that never
\* arrived (fetch rejected) is NetFail.
NetFail == [ok |-> FALSE, setCookie |-> <<>>]
TestSetCookie == <<WORDPRESS_TEST_COOKIE_NAME, "WP%20Cookie%20check", "path=/; secure">>
LoggedInSetCookie(u) == <<"wordpress_logged_in_h", OriginToken(u), "path=/; HttpOnly">>
SecSetCookie(u) == <<"wordpress_sec_h", OriginToken(u), "path=/wp-admin; HttpOnly">>

\* responses the origin can give to GET /wp-login.php
GetResponses ==
  { NetFail,
    [ok |-> TRUE, setCookie |-> <<TestSetCookie>>] }

\* responses the origin can give to POST /wp-login.php with these credentials
PostResponses(input) ==
  { NetFail,
    [ok |-> TRUE, setCookie |-> <<TestSetCookie>>] }
  \cup
  ( IF OriginUserOf(input) \in Users
    THEN { [ok |-> TRUE,
            setCookie |-> <<TestSetCookie, SecSetCookie(OriginUserOf(input)),
                            LoggedInSetCookie(OriginUserOf(input))>>] }
    ELSE {} )

\* ------------------------------------------------------------------------
\* Cookie helpers
\* ------------------------------------------------------------------------
\* toCookieHeader: keeps the first ';'-segment (name=value) of each Set-Cookie
toCookieHeader(setCookieHeaders) ==
  [i \in DOMAIN setCookieHeaders |-> <<setCookieHeaders[i][1], setCookieHeaders[i][2]>>]

\* variant: a name already in the map keeps its value
MapSet_keepFirst(m, name, value) ==
  IF \E i \in DOMAIN m : m[i][1] = name THEN m
  ELSE Append(m, <<name, value>>)

\* Map.prototype.set on an insertion-ordered map kept as a sequence of pairs
MapSet(m, name, value) ==
  IF \E i \in DOMAIN m : m[i][1] = name
  THEN [i \in DOMAIN m |-> IF m[i][1] = name THEN <<name, value>> ELSE m[i]]
  ELSE Append(m, <<name, value>>)

RECURSIVE MergeParts(_, _)
MergeParts(m, parts) ==
  IF parts = <<>> THEN m
  ELSE IF Head(parts)[1] = "" THEN MergeParts(m, Tail(parts))
  ELSE MergeParts(MapSet(m, Head(parts)[1], Head(parts)[2]), Tail(parts))

mergeCookieHeaders(h1, h2) == MergeParts(MergeParts(<<>>, h1), h2)

IsLoginCookieName(name) ==
  name \in {"wordpress_logged_in_h", "wordpress_sec_h"}

\* variant: any cookie counts as the logged-in marker
hasWordPressLoginCookie_any(cookieHeader) == cookieHeader # <<>>

hasWordPressLoginCookie(cookieHeader) ==
  \E i \in DOMAIN cookieHeader : IsLoginCookieName(cookieHeader[i][1])

\* ------------------------------------------------------------------------
\* State
\* ------------------------------------------------------------------------
VARIABLES
  variant,                 \* which createWordPressAuthBridge is deployed
  sessionDurationSeconds,  \* config.sessionDurationSeconds
  now,                     \* Date.now()
  sessionStore,            \* the Map<string, WordPressAuthSession>
  minted,                  \* number of ids crypto.randomUUID() has returned
  login,                   \* one loginAction execution per process
  resolve,                 \* one resolveUserBySessionId execution per process
  jar,                     \* cookie written on the response of each caller
  upstreamTotal,           \* number of items the origin holds for the query
  getAll,                  \* one getAll* execution of the REST client
  call,                    \* one call of a helper function: input and result
  dataStore,               \* the DataStore Astro hands to a static loader
  originPosts              \* the posts the origin holds for the write actions

authVars == <<variant, sessionDurationSeconds, now, sessionStore, minted,
              login, resolve, jar>>

pageVars == <<upstreamTotal, getAll>>

storeVars == <<dataStore, originPosts>>

fnVars == <<call, storeVars>>

vars == <<authVars, pageVars, fnVars>>

NullSession == [id |-> 0, userId |-> 0, cred |-> <<>>, expiresAt |-> 0]
NoCookie == [op |-> "none", name |-> "", value |-> 0, maxAge |-> 0, httpOnly |-> FALSE]
NoInput == [usernameOrEmail |-> "", password |-> ""]
IdleLogin ==
  [pc |-> "idle", input |-> NoInput, header |-> <<>>, reqs |-> <<>>,
   result |-> "none", userId |-> 0, sid |-> 0]
IdleResolve ==
  [pc |-> "idle", arg |-> 0, via |-> "", session |-> NullSession, reqs |-> <<>>,
   result |-> 0]

\* callers that own a response: each login request, and the middleware (0)
Callers == LoginProcs \cup {0}

\* variant: the configured value is ignored
NormalizedDuration_default == DEFAULT_SESSION_DURATION_SECONDS

\* normalizedConfig.sessionDurationSeconds:
\* config.sessionDurationSeconds || DEFAULT_SESSION_DURATION_SECONDS, where
\* undefined and 0 are falsy
NormalizedDuration ==
  IF sessionDurationSeconds \in {NotConfigured, 0}
  THEN DEFAULT_SESSION_DURATION_SECONDS
  ELSE sessionDurationSeconds

\* the origin resolves this credential material to user u
CredentialOf(cred, u) ==
  \E i \in DOMAIN cred :
    \/ (IsLoginCookieName(cred[i][1]) /\ cred[i][2] = OriginToken(u))
    \/ (cred[i][1] = "basic" /\ OriginUserOf(cred[i][2]) = u)

\* the user the origin resolves this credential material to, 0 when none
OriginAccepts(cred) ==
  IF \E u \in Users : CredentialOf(cred, u)
  THEN CHOOSE u \in Users : CredentialOf(cred, u)
  ELSE 0

\* variant: every client counts as authenticated
hasAuth_always(auth) == TRUE

\* WordPressClient.hasAuth: an Authorization header exists iff config.auth is set
hasAuth(auth) == auth # <<>>

\* the same check in the cookie-aware client the form variant constructs
hasCookieAuth(cookies) == cookies # <<>>

AuthInit(variants, durations) ==
  /\ variant \in variants
  /\ sessionDurationSeconds \in durations
  /\ now = 0
  /\ sessionStore = [id \in {} |-> NullSession]
  /\ minted = 0
  /\ login = [p \in LoginProcs |-> IdleLogin]
  /\ resolve = [r \in ResolveProcs |-> IdleResolve]
  /\ jar = [c \in Callers |-> NoCookie]

IdleGetAll ==
  [pc |-> "idle", endpoint |-> "", filter |-> [search |-> "", perPage |-> 0],
   page |-> 0, totalPages |-> 0, all |-> <<>>, reqs |-> <<>>,
   seenTotals |-> {}, seenPages |-> {}, stable |-> TRUE, error |-> ""]

\* no helper function has been called
IdleCall == [pc |-> "idle", fn |-> "", input |-> <<>>, output |-> <<>>]

\* a DataStore with no entry: a map from entry id to entry
EmptyStore == [k \in {} |-> <<>>]

\* an origin without posts; the next post it creates gets id 1
NoPosts == [next |-> 1, posts |-> EmptyStore]

Init ==
  /\ AuthInit(Variants, ConfigDurations)
  /\ upstreamTotal = 0
  /\ getAll = IdleGetAll
  /\ call = IdleCall
  /\ dataStore = EmptyStore
  /\ originPosts = NoPosts

\* ------------------------------------------------------------------------
\* Session store helpers (closures of createWordPressAuthBridge)
\* ------------------------------------------------------------------------
\* variant: a session is still served at the instant it expires
isSessionExpired_strict(session, t) == session.expiresAt < t

isSessionExpired(session, t) == session.expiresAt <= t

\* variant: Map.clear() in place of Map.delete(id)
MapDelete_clear(store, id) == [k \in {} |-> NullSession]

MapDelete(store, id) == [k \in (DOMAIN store) \ {id} |-> store[k]]

MapPut(store, id, session) ==
  [k \in (DOMAIN store) \cup {id} |-> IF k = id THEN session ELSE store[k]]

\* variant: the id returned last is returned again
randomUUID_reused == IF minted = 0 THEN 1 ELSE minted

\* crypto.randomUUID(): an id never returned before
randomUUID == minted + 1

\* variant: the session id is stored where the user id belongs
NewSession_swapped(id, userId, cred, t) ==
  [id |-> id, userId |-> id, cred |-> cred,
   expiresAt |-> t + NormalizedDuration * MsPerSecond]

\* createSession: the record it builds
NewSession(id, userId, cred, t) ==
  [id |-> id, userId |-> userId, cred |-> cred,
   expiresAt |-> t + NormalizedDuration * MsPerSecond]

\* createSession: the store it leaves behind
createSession(store, id, userId, cred, t) ==
  MapPut(store, id, NewSession(id, userId, cred, t))

\* getSession: the return statement reached
getSessionBranch(store, sessionId, t) ==
  IF sessionId = 0 THEN "noId"
  ELSE IF sessionId \notin DOMAIN store THEN "absent"
  ELSE IF ~isSessionExpired(store[sessionId], t) THEN "live"
  ELSE "expired"

\* getSession: the value returned
getSessionValue(store, sessionId, t) ==
  IF getSessionBranch(store, sessionId, t) = "live" THEN store[sessionId]
  ELSE NullSession

\* variant: the entry is dropped on every read that finds it
getSessionStore_eager(store, sessionId, t) ==
  IF getSessionBranch(store, sessionId, t) \in {"live", "expired"}
  THEN MapDelete(store, sessionId)
  ELSE store

\* getSession: the store it leaves behind
getSessionStore(store, sessionId, t) ==
  IF getSessionBranch(store, sessionId, t) = "expired"
  THEN MapDelete(store, sessionId)
  ELSE store

\* variant: the delete is forgotten
deleteSession_noop(store, sessionId) == store

\* deleteSession: the store it leaves behind
deleteSession(store, sessionId) ==
  IF sessionId = 0 THEN store ELSE MapDelete(store, sessionId)

\* clearCookie: cookies.delete(cookieName, { path })
clearCookie ==
  [op |-> "delete", name |-> DEFAULT_COOKIE_NAME, value |-> 0,
   maxAge |-> 0, httpOnly |-> FALSE]

\* variant: the cookie always lives for the default duration
SessionCookie_defaultAge(id) ==
  [op |-> "set", name |-> DEFAULT_COOKIE_NAME, value |-> id,
   maxAge |-> DEFAULT_SESSION_DURATION_SECONDS, httpOnly |-> TRUE]

\* context.cookies.set(cookieName, session.id, { httpOnly, maxAge, ... })
SessionCookie(id) ==
  [op |-> "set", name |-> DEFAULT_COOKIE_NAME, value |-> id,
   maxAge |-> NormalizedDuration, httpOnly |-> TRUE]

\* ------------------------------------------------------------------------
\* Synchronous helpers called by the host's middleware
\* ------------------------------------------------------------------------
GetSession(sessionId) ==
  /\ sessionStore' = getSessionStore(sessionStore, sessionId, now)
  /\ UNCHANGED <<fnVars, pageVars, variant, sessionDurationSeconds, now, minted, login, resolve, jar>>

DeleteSession(sessionId) ==
  /\ sessionStore' = deleteSession(sessionStore, sessionId)
  /\ UNCHANGED <<fnVars, pageVars, variant, sessionDurationSeconds, now, minted, login, resolve,
                 jar>>

ClearAuthentication(c, sessionId) ==
  /\ sessionStore' = deleteSession(sessionStore, sessionId)
  /\ jar' = [jar EXCEPT ![c] = clearCookie]
  /\ UNCHANGED <<fnVars, pageVars, variant, sessionDurationSeconds, now, minted, login, resolve>>

\* ------------------------------------------------------------------------
\* loginAction handler, one action per await
\* ------------------------------------------------------------------------
\* the handler rejected with this error; its locals are gone
LoginFailed(p, code) ==
  [login[p] EXCEPT !.pc = "done", !.result = code, !.input = NoInput,
                   !.header = <<>>]

\* variant: every payload passes
schemaAccepts_any(raw) == TRUE

\* wordPressLoginInputSchema.safeParse(raw).success: the form-login schema
\* takes a trimmed user name of 1..320 characters, the basic-auth schema a
\* trimmed email; both a password of 1..512 characters and, being strict, no
\* other key
schemaAccepts(raw) ==
  /\ IF variant = "form"
     THEN /\ Len(Trim(raw.usernameOrEmail)) >= 1
          /\ Len(Trim(raw.usernameOrEmail)) <= MaxUsernameLength
     ELSE IsEmail(Trim(raw.usernameOrEmail))
  /\ Len(raw.password) >= 1
  /\ Len(raw.password) <= MaxPasswordLength
  /\ raw.extra = {}

\* the parsed payload the handler receives
parseInput(raw) ==
  [usernameOrEmail |-> Trim(raw.usernameOrEmail), password |-> raw.password]

\* defineAction({ input: wordPressLoginInputSchema, handler }): a payload the
\* schema rejects ends the call with an input error; the handler is not run
LoginInvalid(p, raw) ==
  /\ login[p].pc \in {"idle", "done"}
  /\ ~schemaAccepts(raw)
  /\ login' = [login EXCEPT ![p] =
       [IdleLogin EXCEPT !.pc = "done", !.result = "BAD_REQUEST"]]
  /\ jar' = [jar EXCEPT ![p] = NoCookie]
  /\ UNCHANGED <<fnVars, pageVars, variant, sessionDurationSeconds, now, sessionStore,
                 minted, resolve>>

\* handler entry.  form: loginWithWordPressForm sends GET /wp-login.php.
\* basic: the client is built from the input and getCurrentUser sends
\* GET /users/me when hasAuth holds.
LoginStart(p, raw) ==
  /\ login[p].pc \in {"idle", "done"}
  /\ minted < MaxSessions
  /\ schemaAccepts(raw)
  /\ LET input == parseInput(raw) IN
     IF variant = "form"
     THEN login' = [login EXCEPT ![p] =
            [IdleLogin EXCEPT !.pc = "awaitGet", !.input = input,
                              !.reqs = <<"GET">>]]
     ELSE IF hasAuth(<<<<"basic", input>>>>)
     THEN login' = [login EXCEPT ![p] =
            [IdleLogin EXCEPT !.pc = "awaitMe", !.input = input,
                              !.header = <<<<"basic", input>>>>,
                              !.reqs = <<"ME">>]]
     ELSE login' = [login EXCEPT ![p] =
            [IdleLogin EXCEPT !.pc = "done", !.result = "UNAUTHORIZED"]]
  /\ jar' = [jar EXCEPT ![p] = NoCookie]
  /\ UNCHANGED <<fnVars, pageVars, variant, sessionDurationSeconds, now, sessionStore, minted,
                 resolve>>

\* the GET resolves or rejects; on a response the POST is sent with the
\* test cookie merged with the harvested cookies
LoginGetResponse(p, resp) ==
  /\ login[p].pc = "awaitGet"
  /\ resp \in GetResponses
  /\ IF ~resp.ok
     THEN login' = [login EXCEPT ![p] = LoginFailed(p, "TypeError")]
     ELSE login' = [login EXCEPT ![p] =
            [login[p] EXCEPT
               !.pc = "awaitPost",
               !.header = mergeCookieHeaders(
                  <<<<WORDPRESS_TEST_COOKIE_NAME, WORDPRESS_TEST_COOKIE_VALUE>>>>,
                  toCookieHeader(resp.setCookie)),
               !.reqs = Append(@, "POST")]]
  /\ UNCHANGED <<fnVars, pageVars, variant, sessionDurationSeconds, now, sessionStore, minted,
                 resolve, jar>>

\* the POST resolves or rejects; cookies are merged and the logged-in marker
\* is checked; then the handler builds the client and calls getCurrentUser
LoginPostResponse(p, resp) ==
  /\ login[p].pc = "awaitPost"
  /\ resp \in PostResponses(login[p].input)
  /\ LET merged == mergeCookieHeaders(login[p].header, toCookieHeader(resp.setCookie))
     IN IF ~resp.ok
        THEN login' = [login EXCEPT ![p] = LoginFailed(p, "TypeError")]
        ELSE IF merged = <<>> \/ ~hasWordPressLoginCookie(merged)
        THEN login' = [login EXCEPT ![p] = LoginFailed(p, "UNAUTHORIZED")]
        ELSE IF ~hasCookieAuth(merged)
        THEN login' = [login EXCEPT ![p] = LoginFailed(p, "UNAUTHORIZED")]
        ELSE login' = [login EXCEPT ![p] =
               [login[p] EXCEPT !.pc = "awaitMe", !.header = merged,
                                !.reqs = Append(@, "ME")]]
  /\ UNCHANGED <<fnVars, pageVars, variant, sessionDurationSeconds, now, sessionStore, minted,
                 resolve, jar>>

\* variant: one cookie header shared by all executions, holding what the
\* execution that wrote last put there
cookieHeaderOf_shared(p) ==
  IF \E q \in DOMAIN login : q # p /\ login[q].header # <<>>
  THEN login[CHOOSE q \in DOMAIN login : q # p /\ login[q].header # <<>>].header
  ELSE login[p].header

\* const cookieHeader: a local of this execution of the handler
cookieHeaderOf(p) == login[p].header

\* variant: the session is created before the current-user call is checked
LoginMeResponse_early(p, user) ==
  /\ login[p].pc = "awaitMe"
  /\ user \in {0, OriginAccepts(login[p].header)}
  /\ sessionStore' =
       createSession(sessionStore, randomUUID, user, login[p].header, now)
  /\ minted' = minted + 1
  /\ IF user = 0
     THEN /\ login' = [login EXCEPT ![p] = LoginFailed(p, "UNAUTHORIZED")]
          /\ UNCHANGED jar
     ELSE /\ jar' = [jar EXCEPT ![p] = SessionCookie(randomUUID)]
          /\ login' = [login EXCEPT ![p] =
               [login[p] EXCEPT !.pc = "done", !.result = "ok",
                                !.input = NoInput, !.header = <<>>,
                                !.userId = user, !.sid = randomUUID]]
  /\ UNCHANGED <<fnVars, pageVars, variant, sessionDurationSeconds, now, resolve>>

\* GET /users/me resolves (user) or fails (user = 0: rejected request, non-OK
\* status); on success the session is created and the cookie is set
LoginMeResponse(p, user) ==
  /\ login[p].pc = "awaitMe"
  /\ user \in {0, OriginAccepts(login[p].header)}
  /\ IF user = 0
     THEN /\ login' = [login EXCEPT ![p] = LoginFailed(p, "UNAUTHORIZED")]
          /\ UNCHANGED <<sessionStore, minted, jar>>
     ELSE /\ sessionStore' =
               createSession(sessionStore, randomUUID, user, cookieHeaderOf(p), now)
          /\ minted' = minted + 1
          /\ jar' = [jar EXCEPT ![p] = SessionCookie(randomUUID)]
          /\ login' = [login EXCEPT ![p] =
               [login[p] EXCEPT !.pc = "done", !.result = "ok",
                                !.input = NoInput, !.header = <<>>,
                                !.userId = user, !.sid = randomUUID]]
  /\ UNCHANGED <<fnVars, pageVars, variant, sessionDurationSeconds, now, resolve>>

\* ------------------------------------------------------------------------
\* resolveUserBySessionId, one action per await
\* ------------------------------------------------------------------------
\* getSession, then loader.loadEntry({ filter: { id: session.userId } })
ResolveStart(r, sessionId) ==
  /\ resolve[r].pc \in {"idle", "done"}
  /\ LET session == getSessionValue(sessionStore, sessionId, now)
     IN /\ sessionStore' = getSessionStore(sessionStore, sessionId, now)
        /\ IF session = NullSession
           THEN resolve' = [resolve EXCEPT ![r] =
                  [IdleResolve EXCEPT
                     !.pc = "done", !.arg = sessionId,
                     !.via = getSessionBranch(sessionStore, sessionId, now)]]
           ELSE resolve' = [resolve EXCEPT ![r] =
                  [IdleResolve EXCEPT
                     !.pc = "awaitUser", !.arg = sessionId,
                     !.via = getSessionBranch(sessionStore, sessionId, now),
                     !.session = session, !.reqs = <<"USER">>]]
  /\ UNCHANGED <<fnVars, pageVars, variant, sessionDurationSeconds, now, minted, login, jar>>

\* variant: a successful lookup renews the session (sliding expiry)
ResolveResponse_refresh(r, user) ==
  /\ resolve[r].pc = "awaitUser"
  /\ user \in {0} \cup
       (IF OriginAccepts(resolve[r].session.cred) # 0
        THEN {resolve[r].session.userId} ELSE {})
  /\ IF user = 0
     THEN /\ sessionStore' = deleteSession(sessionStore, resolve[r].session.id)
          /\ resolve' = [resolve EXCEPT ![r].pc = "done", ![r].result = 0,
                                        ![r].session = NullSession]
     ELSE /\ resolve' = [resolve EXCEPT ![r].pc = "done", ![r].result = user,
                                        ![r].session = NullSession]
          /\ sessionStore' =
               [k \in DOMAIN sessionStore |->
                  IF k = resolve[r].session.id
                  THEN [sessionStore[k] EXCEPT
                          !.expiresAt = now + (NormalizedDuration + 1) * MsPerSecond]
                  ELSE sessionStore[k]]
  /\ UNCHANGED <<fnVars, pageVars, variant, sessionDurationSeconds, now, minted, login, jar>>

\* loadEntry resolved: data (user # 0) or { error } (user = 0)
ResolveResponse(r, user) ==
  /\ resolve[r].pc = "awaitUser"
  /\ user \in {0} \cup
       (IF OriginAccepts(resolve[r].session.cred) # 0
        THEN {resolve[r].session.userId} ELSE {})
  /\ IF user = 0
     THEN /\ sessionStore' = deleteSession(sessionStore, resolve[r].session.id)
          /\ resolve' = [resolve EXCEPT ![r].pc = "done", ![r].result = 0,
                                        ![r].session = NullSession]
     ELSE /\ resolve' = [resolve EXCEPT ![r].pc = "done", ![r].result = user,
                                        ![r].session = NullSession]
          /\ UNCHANGED sessionStore
  /\ UNCHANGED <<fnVars, pageVars, variant, sessionDurationSeconds, now, minted, login, jar>>

\* ------------------------------------------------------------------------
\* Environment
\* ------------------------------------------------------------------------
Tick ==
  /\ now < MaxTicks * MsPerSecond
  /\ now' = now + MsPerSecond
  /\ UNCHANGED <<fnVars, pageVars, variant, sessionDurationSeconds, sessionStore, minted,
                 login, resolve, jar>>

Next ==
  \/ \E s \in SessionIdArgs : GetSession(s)
  \/ \E s \in SessionIdArgs : DeleteSession(s)
  \/ \E s \in SessionIdArgs : ClearAuthentication(0, s)
  \/ \E p \in LoginProcs, raw \in LoginInputs : LoginInvalid(p, raw)
  \/ \E p \in LoginProcs, raw \in LoginInputs : LoginStart(p, raw)
  \/ \E p \in LoginProcs, resp \in GetResponses : LoginGetResponse(p, resp)
  \/ \E p \in LoginProcs :
       \E resp \in PostResponses(login[p].input) : LoginPostResponse(p, resp)
  \/ \E p \in LoginProcs, user \in {0} \cup Users : LoginMeResponse(p, user)
  \/ \E r \in ResolveProcs, s \in SessionIdArgs : ResolveStart(r, s)
  \/ \E r \in ResolveProcs, user \in {0} \cup Users : ResolveResponse(r, user)
  \/ Tick

Spec == Init /\ [][Next]_vars

\* ------------------------------------------------------------------------
\* Properties of the auth bridge
\* ------------------------------------------------------------------------
EntryOf(store, id) == IF id \in DOMAIN store THEN store[id] ELSE NullSession

TtlElapsed(id) == id \in DOMAIN sessionStore /\ sessionStore[id].expiresAt <= now

HandshakeOrder == <<"GET", "POST", "ME">>

\* the header holds a cookie named wordpress_logged_in_* or wordpress_sec_*
CarriesMarker(header) ==
  \E i \in DOMAIN header :
    header[i][1] \in {"wordpress_logged_in_h", "wordpress_sec_h"}

IsPrefix(a, b) == Len(a) <= Len(b) /\ \A i \in DOMAIN a : a[i] = b[i]

\* a step of the loginAction execution p
LoginStep(p) == login'[p] # login[p]

\* C1: a getSession(id) made once the TTL of id has elapsed returns null and
\* removes the entry (directly, or as the first statement of
\* resolveUserBySessionId); no read adds an entry, and an id that has left the
\* store never comes back, so a second read returns null too.
C1_ExpiredReadRemoves ==
  [][ /\ \A s \in SessionIds :
           (TtlElapsed(s) /\ GetSession(s))
             => /\ getSessionValue(sessionStore, s, now) = NullSession
                /\ s \notin DOMAIN sessionStore'
      /\ \A s \in SessionIds, r \in ResolveProcs :
           (TtlElapsed(s) /\ ResolveStart(r, s))
             => /\ resolve'[r].pc = "done" /\ resolve'[r].result = 0
                /\ resolve'[r].reqs = <<>>
                /\ s \notin DOMAIN sessionStore'
      /\ \A s \in SessionIdArgs :
           (GetSession(s) \/ \E r \in ResolveProcs : ResolveStart(r, s))
             => DOMAIN sessionStore' \subseteq DOMAIN sessionStore
      /\ \A s \in 1..minted :
           s \notin DOMAIN sessionStore => s \notin DOMAIN sessionStore'
    ]_vars

C1_Witness ==
  \E r \in ResolveProcs :
    /\ resolve[r].pc = "done" /\ resolve[r].via = "expired"
    /\ resolve[r].result = 0
    /\ resolve[r].arg \in 1..minted
    /\ resolve[r].arg \notin DOMAIN sessionStore

\* C2: every step of a login attempt that does not end in success leaves the
\* session store as it was and writes no session cookie on the response.
C2_FailedLoginKeepsNothing ==
  [][ \A p \in LoginProcs :
        (LoginStep(p) /\ login'[p].result # "ok")
          => /\ sessionStore' = sessionStore
             /\ minted' = minted
             /\ jar'[p].op # "set"
    ]_vars

C2_Witness ==
  \E p \in LoginProcs :
    /\ login[p].pc = "done" /\ login[p].result = "UNAUTHORIZED"
    /\ "ME" \in {login[p].reqs[i] : i \in DOMAIN login[p].reqs}
    /\ DOMAIN sessionStore # {}
    /\ jar[p].op = "none"

\* C3 (as claimed): every login whose handler ran and failed ends in
\* UNAUTHORIZED, and no request of the handshake is sent twice.
C3_EveryFailureUnauthorized ==
  \A p \in LoginProcs :
    /\ (login[p].pc = "done" /\ login[p].result \notin {"ok", "BAD_REQUEST"})
         => login[p].result = "UNAUTHORIZED"
    /\ \A i, j \in DOMAIN login[p].reqs :
         login[p].reqs[i] = login[p].reqs[j] => i = j

CreatedOnlyByLogin ==
  \A s \in SessionIds :
    (s \notin DOMAIN sessionStore /\ s \in DOMAIN sessionStore')
      => \E p \in LoginProcs : LoginStep(p) /\ login'[p].result = "ok"
                                 /\ login'[p].sid = s

Logout(s) == DeleteSession(s) \/ ClearAuthentication(0, s)

ReadAfterExpiry(s) ==
  TtlElapsed(s) /\ (GetSession(s) \/ \E r \in ResolveProcs : ResolveStart(r, s))

FailedLookup(s) ==
  \E r \in ResolveProcs :
    resolve[r].pc = "awaitUser" /\ resolve[r].session.id = s /\ ResolveResponse(r, 0)

\* C5 (as claimed): an entry is created only by a successful login and leaves
\* the store only in a logout for its id or in a read after its expiry.
C5_RemovedOnlyByLogoutOrExpiry ==
  [][ /\ CreatedOnlyByLogin
      /\ \A s \in SessionIds :
           (s \in DOMAIN sessionStore /\ s \notin DOMAIN sessionStore')
             => (Logout(s) \/ ReadAfterExpiry(s))
    ]_vars

\* C5 (amended): an entry is created only by a successful login and leaves the
\* store only in a logout for its id, in a read after its expiry, or when the
\* user lookup of a resolveUserBySessionId for its id fails.
C5_RemovedOnlyByLogoutExpiryOrFailedLookup ==
  [][ /\ CreatedOnlyByLogin
      /\ \A s \in SessionIds :
           (s \in DOMAIN sessionStore /\ s \notin DOMAIN sessionStore')
             => (Logout(s) \/ ReadAfterExpiry(s) \/ FailedLookup(s))
    ]_vars

C5_Witness ==
  \E r \in ResolveProcs :
    /\ resolve[r].pc = "done" /\ resolve[r].via = "live"
    /\ resolve[r].reqs = <<"USER">> /\ resolve[r].result = 0
    /\ resolve[r].arg \notin DOMAIN sessionStore
    /\ DOMAIN sessionStore # {}

\* C6: clearAuthentication(cookies, sessionId) leaves no entry for sessionId,
\* deletes the auth cookie on the response, sends no request and changes no
\* other entry.
C6_ClearAuthenticationFrame ==
  [][ \A s \in SessionIdArgs :
        ClearAuthentication(0, s)
          => /\ s \notin DOMAIN sessionStore'
             /\ jar'[0].op = "delete" /\ jar'[0].name = DEFAULT_COOKIE_NAME
             /\ \A t \in SessionIds \ {s} :
                  EntryOf(sessionStore', t) = EntryOf(sessionStore, t)
             /\ \A p \in LoginProcs : login'[p].reqs = login[p].reqs
             /\ \A r \in ResolveProcs : resolve'[r].reqs = resolve[r].reqs
    ]_vars

C6_Witness ==
  /\ jar[0].op = "delete"
  /\ minted = MaxSessions
  /\ Cardinality(DOMAIN sessionStore) = MaxSessions - 1

\* an operation step whose target is session id a
OpOn(a) ==
  \/ GetSession(a)
  \/ DeleteSession(a)
  \/ ClearAuthentication(0, a)
  \/ \E r \in ResolveProcs : ResolveStart(r, a)
  \/ \E r \in ResolveProcs :
       resolve[r].arg = a /\ \E u \in {0} \cup Users : ResolveResponse(r, u)
  \/ \E p \in LoginProcs : LoginStep(p) /\ (login'[p].result = "ok" => login'[p].sid = a)

Endpoints == {"/posts", "/pages", "/media", "/categories", "/tags", "/users"}

\* filter objects: a search term, and a perPage key (0: not set)
Filters == [search : {"", "wp"}, perPage : {0, 50}]

\* item counts the origin may hold for a query
Totals == {t \in 0..MaxTotal : t % PER_PAGE \in {0, 1, 50}}

Min(a, b) == IF a < b THEN a ELSE b

\* the origin's list for the query, in the origin's order
Items(total) == [i \in 1..total |-> i]

\* filterToParams({ ...filter, page, perPage: 100 }): later keys win, and
\* per_page falls back to 100 when no perPage key is left
getAllParams(endpoint, filter, page) ==
  LET merged == [filter EXCEPT !.perPage = PER_PAGE]
  IN [endpoint |-> endpoint, search |-> merged.search, page |-> page,
      per_page |-> IF merged.perPage = 0 THEN PER_PAGE ELSE merged.perPage]

\* X-WP-TotalPages the origin computes
LastPage(total, perPage) == (total + perPage - 1) \div perPage

\* the items the origin puts on one page of the list
PageSlice(total, page, perPage) ==
  LET lo == (page - 1) * perPage + 1
      hi == Min(page * perPage, total)
  IN IF page < 1 \/ hi < lo THEN <<>>
     ELSE [i \in 1..(hi - lo + 1) |-> Items(total)[lo + i - 1]]

\* a header is a set: empty when the response does not carry it
FailedResponse ==
  [ok |-> FALSE, status |-> 400, data |-> <<>>, total |-> {}, totalPages |-> {}]

\* fetch itself rejects: no response (status 0)
NetworkError ==
  [ok |-> FALSE, status |-> 0, data |-> <<>>, total |-> {}, totalPages |-> {}]

\* the origin's answer to a list request: a page beyond the last one is a 400
OriginList(total, params) ==
  IF params.page > 1 /\ params.page > LastPage(total, params.per_page)
  THEN FailedResponse
  ELSE [ok |-> TRUE, status |-> 200,
        data |-> PageSlice(total, params.page, params.per_page),
        total |-> {total},
        totalPages |-> {LastPage(total, params.per_page)}]

\* what fetch can resolve to: the origin's answer, the same answer with the
\* pagination headers stripped on the way, or a failure
ListResponses(total, params) ==
  { NetworkError, FailedResponse, OriginList(total, params),
    [OriginList(total, params) EXCEPT !.total = {}, !.totalPages = {}] }

\* variant: a missing header counts as two
parseHeader_fallback(h) == IF h = {} THEN 2 ELSE CHOOSE n \in h : TRUE

\* parseInt(response.headers.get(name) || '0', 10)
parseHeader(h) == IF h = {} THEN 0 ELSE CHOOSE n \in h : TRUE

\* fetchAPIPaginated: the FetchResult of an OK response
fetchAPIPaginated(resp) ==
  [data |-> resp.data, total |-> parseHeader(resp.total),
   totalPages |-> parseHeader(resp.totalPages)]

\* variant: the last page is not fetched
ContinueLoop_strict(page, totalPages) == page < totalPages

\* while (page <= totalPages)
ContinueLoop(page, totalPages) == page <= totalPages

\* variant: each page replaces the list
pushAll_overwrite(all, data) == data

\* allPosts.push(...result.data)
pushAll(all, data) == all \o data

\* the rejection a failed request produces: fetch's own TypeError, or the
\* Error fetchAPIPaginated throws for a non-OK status
ErrorOf(resp) ==
  IF resp.status = 0 THEN "TypeError" ELSE "WordPress API error"

\* variant: the failure is swallowed and the pages read so far are returned
getAllRejected_partial(g, resp) == [g EXCEPT !.pc = "done"]

\* the throw leaves the loop and the async function: the promise rejects, the
\* local list is dropped
getAllRejected(g, resp) ==
  [g EXCEPT !.pc = "failed", !.all = <<>>, !.error = ErrorOf(resp)]

\* the locals of getAll*(filter) at the await of its first iteration
getAllFirst(endpoint, filter) ==
  [IdleGetAll EXCEPT !.pc = "await", !.endpoint = endpoint,
                     !.filter = filter, !.page = 1,
                     !.totalPages = 1, !.reqs = <<1>>]

\* getAll*(filter): first iteration of the do/while up to its await
GetAllStart(endpoint, filter) ==
  /\ getAll.pc \in {"idle", "done", "failed"}
  /\ getAll' = getAllFirst(endpoint, filter)
  /\ UNCHANGED <<fnVars, authVars, upstreamTotal>>

\* the awaited fetchAPIPaginated settles: the rest of the iteration, the loop
\* test, and either the next request or the return
GetAllResponse(resp) ==
  /\ getAll.pc = "await"
  /\ resp \in ListResponses(upstreamTotal,
                            getAllParams(getAll.endpoint, getAll.filter, getAll.page))
  /\ IF ~resp.ok
     THEN getAll' = getAllRejected(getAll, resp)
     ELSE LET result == fetchAPIPaginated(resp)
              next == getAll.page + 1
              seen == [getAll EXCEPT
                         !.all = pushAll(@, result.data),
                         !.totalPages = result.totalPages,
                         !.page = next,
                         !.seenTotals = @ \cup {resp.total},
                         !.seenPages = @ \cup {resp.totalPages}]
          IN IF ContinueLoop(next, result.totalPages)
             THEN getAll' = [seen EXCEPT !.reqs = Append(@, next)]
             ELSE getAll' = [seen EXCEPT !.pc = "done"]
  /\ UNCHANGED <<fnVars, authVars, upstreamTotal>>

\* content is published or removed at the origin while a call is in flight
UpstreamChange(total) ==
  /\ getAll.pc = "await"
  /\ total \in Totals \ {upstreamTotal}
  /\ upstreamTotal' = total
  /\ getAll' = [getAll EXCEPT !.stable = FALSE]
  /\ UNCHANGED <<fnVars, authVars>>

PageInit ==
  /\ AuthInit({"form"}, {0})
  /\ upstreamTotal \in Totals
  /\ getAll = IdleGetAll
  /\ call = IdleCall
  /\ dataStore = EmptyStore
  /\ originPosts = NoPosts

PageNext ==
  \/ \E e \in Endpoints, f \in Filters : GetAllStart(e, f)
  \/ \E resp \in ListResponses(upstreamTotal,
                   getAllParams(getAll.endpoint, getAll.filter, getAll.page)) :
       GetAllResponse(resp)
  \/ \E t \in Totals : UpstreamChange(t)

PageSpec == PageInit /\ [][PageNext]_vars

\* C9: when every response of a getAll* call reported the same total-pages
\* value N >= 1, the call requested pages 1..N, each once and in ascending
\* order; with the origin's list unchanged during the call, the list returned
\* is the origin's list in the origin's order.
C9_PagesOneToN ==
  getAll.pc = "done" =>
    /\ \A n \in 1..(MaxTotal + 1) :
         getAll.seenPages = {{n}} => getAll.reqs = [i \in 1..n |-> i]
    /\ (getAll.stable /\ \E n \in 1..(MaxTotal + 1) : getAll.seenPages = {{n}})
         => getAll.all = Items(upstreamTotal)

C9_Witness ==
  /\ getAll.pc = "done" /\ getAll.stable
  /\ getAll.seenPages = {{3}}
  /\ getAll.reqs = <<1, 2, 3>>
  /\ Len(getAll.all) > 2 * PER_PAGE

\* C10: when every response of a getAll* call reported the same X-WP-Total
\* value, the number of items the call returns equals that value.
C10_CountEqualsTotal ==
  getAll.pc = "done" =>
    \A t \in 0..(MaxTotal + 1) :
      getAll.seenTotals = {{t}} => Len(getAll.all) = t

C10_Witness ==
  /\ getAll.pc = "done"
  /\ getAll.seenTotals = {{PER_PAGE + 50}}
  /\ Len(getAll.all) = PER_PAGE + 50
  /\ getAll.reqs = <<1, 2>>

\* C11: when a page request of a getAll* call fails (fetch rejects, or the
\* status is not OK) the call rejects with that failure in the same step: no
\* list is returned, no request is added (neither a repeat nor a further
\* page), and a rejected call sends nothing until it is called again; no page
\* number is ever requested twice within one call.
C11_FailureSurfacesNoRetry ==
  [][ /\ \A resp \in {NetworkError, FailedResponse} :
           GetAllResponse(resp)
             => /\ getAll'.pc = "failed"
                /\ getAll'.error = ErrorOf(resp)
                /\ getAll'.all = <<>>
                /\ getAll'.reqs = getAll.reqs
      /\ (getAll.pc = "failed" /\ getAll'.pc = "failed") => getAll' = getAll
      /\ \A i, j \in DOMAIN getAll'.reqs :
           getAll'.reqs[i] = getAll'.reqs[j] => i = j
    ]_vars

C11_Witness ==
  /\ getAll.pc = "failed"
  /\ getAll.error = "WordPress API error"
  /\ getAll.reqs = <<1, 2>>
  /\ getAll.all = <<>>

\* ------------------------------------------------------------------------
\* Redirect-target sanitization
\* ------------------------------------------------------------------------
\* strings are sequences of characters; these are the pieces inputs are
\* assembled from
Slash == <<"/">>
Backslash == <<"\\">>
QuestionMark == <<"?">>
Hash == <<"#">>
LoginWord == <<"l", "o", "g", "i", "n">>
LogoutWord == <<"l", "o", "g", "o", "u", "t">>
EvilHost == <<"e", "v", "i", "l", ".", "c", "o", "m">>
QueryX1 == <<"x", "=", "1">>
DashboardWord == <<"d", "a", "s", "h", "b", "o", "a", "r", "d">>

Segments ==
  {Slash, Backslash, QuestionMark, Hash, LoginWord, LogoutWord, EvilHost,
   QueryX1, DashboardWord}

RECURSIVE Concats(_)
Concats(n) ==
  IF n = 0 THEN {<<>>}
  ELSE Concats(n - 1) \cup {s \o g : s \in Concats(n - 1), g \in Segments}

\* a value of type string | null | undefined
Str(chars) == [kind |-> "string", chars |-> chars]
Null == [kind |-> "null", chars |-> <<>>]
Undefined == [kind |-> "undefined", chars |-> <<>>]

RedirectInputs == {Null, Undefined} \cup {Str(c) : c \in Concats(MaxSegs)}

\* String.prototype.startsWith
startsWith(str, prefix) ==
  Len(prefix) <= Len(str) /\ SubSeq(str, 1, Len(prefix)) = prefix

\* !candidate: null, undefined and the empty string are falsy
Falsy(v) == v.kind # "string" \/ v.chars = <<>>

Root == Slash
LoginPath == Slash \o LoginWord
LogoutPath == Slash \o LogoutWord

\* variant: the protocol-relative test is missing
sanitizeRedirectPath_noAuthority(candidate) ==
  IF Falsy(candidate) \/ ~startsWith(candidate.chars, Slash) THEN Root
  ELSE IF candidate.chars = LoginPath
          \/ startsWith(candidate.chars, LoginPath \o QuestionMark) THEN Root
  ELSE IF candidate.chars = LogoutPath
          \/ startsWith(candidate.chars, LogoutPath \o QuestionMark) THEN Root
  ELSE candidate.chars

sanitizeRedirectPath(candidate) ==
  IF Falsy(candidate) \/ ~startsWith(candidate.chars, Slash) THEN Root
  ELSE IF startsWith(candidate.chars, Slash \o Slash) THEN Root
  ELSE IF candidate.chars = LoginPath
          \/ startsWith(candidate.chars, LoginPath \o QuestionMark) THEN Root
  ELSE IF candidate.chars = LogoutPath
          \/ startsWith(candidate.chars, LogoutPath \o QuestionMark) THEN Root
  ELSE candidate.chars

\* the return statement of a successful loginAction; the input schema admits
\* a string or no redirectTo at all
LoginReturn ==
  /\ call.pc = "idle"
  /\ call.input.kind # "null"
  /\ call' = [call EXCEPT !.pc = "done", !.fn = "loginAction",
                          !.output = sanitizeRedirectPath(call.input)]
  /\ UNCHANGED <<authVars, pageVars, storeVars>>

\* sanitizeRedirectPath called on its own
SanitizeCall ==
  /\ call.pc = "idle"
  /\ call' = [call EXCEPT !.pc = "done", !.fn = "sanitizeRedirectPath",
                          !.output = sanitizeRedirectPath(call.input)]
  /\ UNCHANGED <<authVars, pageVars, storeVars>>

\* the bridge is idle while a helper is exercised
QuietInit ==
  /\ AuthInit({"form"}, {0})
  /\ upstreamTotal = 0
  /\ getAll = IdleGetAll
  /\ dataStore = EmptyStore
  /\ originPosts = NoPosts

RedirectInit ==
  /\ QuietInit
  /\ \E v \in RedirectInputs : call = [IdleCall EXCEPT !.input = v]

RedirectNext == LoginReturn \/ SanitizeCall

RedirectSpec == RedirectInit /\ [][RedirectNext]_vars

\* how a browser resolves the target against the site: a second character
\* "/" or "\" starts an authority, so the target is another origin
OtherOrigin(c) == Len(c) >= 2 /\ c[1] = "/" /\ c[2] \in {"/", "\\"}

\* the path of the target: everything before the first "?" or "#"
PathOf(c) ==
  IF \E i \in DOMAIN c : c[i] \in {"?", "#"}
  THEN SubSeq(c, 1, (CHOOSE i \in DOMAIN c :
                       /\ c[i] \in {"?", "#"}
                       /\ \A j \in 1..(i - 1) : c[j] \notin {"?", "#"}) - 1)
  ELSE c

PointsAtAuthRoute(c) == PathOf(c) \in {LoginPath, LogoutPath}

SafeLocalPath(v) ==
  /\ v.kind = "string"
  /\ startsWith(v.chars, Slash)
  /\ ~OtherOrigin(v.chars)
  /\ ~PointsAtAuthRoute(v.chars)

\* C12 (as claimed): the redirectTo a successful login returns is "/" for
\* every input that is not a same-origin absolute path, or that points at the
\* login or logout route.
C12_RedirectOnlySafePaths ==
  (call.pc = "done" /\ call.fn = "loginAction" /\ ~SafeLocalPath(call.input))
    => call.output = Root

\* C13: sanitizeRedirectPath maps "//evil.com", "/login", "/logout?x=1", ""
\* and null to "/", and returns "/dashboard" unchanged.
C13_SanitizeExamples ==
  (call.pc = "done" /\ call.fn = "sanitizeRedirectPath")
    => /\ call.input \in {Str(Slash \o Slash \o EvilHost), Str(LoginPath),
                           Str(LogoutPath \o QuestionMark \o QueryX1),
                           Str(<<>>), Null}
            => call.output = Root
       /\ call.input = Str(Slash \o DashboardWord)
            => call.output = Slash \o DashboardWord

C13_Witness ==
  /\ call.pc = "done" /\ call.fn = "sanitizeRedirectPath"
  /\ call.input = Str(Slash \o Slash \o EvilHost)
  /\ call.output = Root

\* ------------------------------------------------------------------------
\* filterToParams
\* ------------------------------------------------------------------------
\* values a filter property can hold
FUndefined == [kind |-> "undefined", val |-> <<>>]
FNull == [kind |-> "null", val |-> <<>>]
FNumber(n) == [kind |-> "number", val |-> n]
FString(chars) == [kind |-> "string", val |-> chars]
FBoolean(b) == [kind |-> "boolean", val |-> b]
FArray(list) == [kind |-> "array", val |-> list]

\* keys of the filter interfaces, as character sequences
KeyPerPage == <<"p", "e", "r", "P", "a", "g", "e">>
KeySearch == <<"s", "e", "a", "r", "c", "h">>
KeyCategoriesExclude ==
  <<"c", "a", "t", "e", "g", "o", "r", "i", "e", "s", "E", "x", "c", "l", "u", "d", "e">>
KeySticky == <<"s", "t", "i", "c", "k", "y">>

FilterKeys == {KeyPerPage, KeySearch, KeyCategoriesExclude, KeySticky}

\* the values each key is given
FilterValues(key) ==
  IF key = KeyPerPage THEN {FUndefined, FNull, FNumber(10)}
  ELSE IF key = KeySearch THEN {FUndefined, FString(<<"w", "p">>)}
  ELSE IF key = KeyCategoriesExclude THEN {FNull, FArray(<<3, 12>>)}
  ELSE {FUndefined, FBoolean(TRUE), FBoolean(FALSE)}

\* a filter object: its own properties in insertion order, no key twice
FilterObjects ==
  UNION {
    { f \in [1..n -> UNION {{<<k, v>> : v \in FilterValues(k)} : k \in FilterKeys}] :
        \A i, j \in 1..n : f[i][1] = f[j][1] => i = j }
    : n \in 0..Cardinality(FilterKeys) }

UpperCase == {"P", "E"}

\* String.prototype.toLowerCase on one character
toLowerCase(c) == IF c = "P" THEN "p" ELSE IF c = "E" THEN "e" ELSE c

RECURSIVE camelToSnake(_)

\* variant: the key is only lower-cased
camelToSnake_lower(key) == [i \in DOMAIN key |-> toLowerCase(key[i])]

\* key.replace(/([A-Z])/g, '_$1').toLowerCase()
camelToSnake(key) ==
  IF key = <<>> THEN <<>>
  ELSE (IF Head(key) \in UpperCase THEN <<"_", toLowerCase(Head(key))>>
        ELSE <<toLowerCase(Head(key))>>) \o camelToSnake(Tail(key))

Digits == <<"0", "1", "2", "3", "4", "5", "6", "7", "8", "9">>

\* String(n) for a natural number
RECURSIVE NumberToString(_)
NumberToString(n) ==
  IF n < 10 THEN <<Digits[n + 1]>>
  ELSE NumberToString(n \div 10) \o <<Digits[(n % 10) + 1]>>

\* Array.prototype.join(',') on numbers
RECURSIVE JoinComma(_)
JoinComma(list) ==
  IF list = <<>> THEN <<>>
  ELSE IF Len(list) = 1 THEN NumberToString(list[1])
  ELSE NumberToString(Head(list)) \o <<",">> \o JoinComma(Tail(list))

\* the string stored for a value that is neither undefined nor null
ParamString(value) ==
  IF value.kind = "array" THEN JoinComma(value.val)
  ELSE IF value.kind = "boolean"
       THEN (IF value.val THEN <<"t", "r", "u", "e">> ELSE <<"f", "a", "l", "s", "e">>)
  ELSE IF value.kind = "number" THEN NumberToString(value.val)
  ELSE value.val

\* params[apiKey] = ...
ParamsSet(params, key, value) ==
  [k \in (DOMAIN params) \cup {key} |-> IF k = key THEN value ELSE params[k]]

\* the for..of loop over Object.entries(filter)
RECURSIVE ParamsLoop(_, _)
ParamsLoop(entries, params) ==
  IF entries = <<>> THEN params
  ELSE LET key == Head(entries)[1]
           value == Head(entries)[2]
       IN IF value.kind \in {"undefined", "null"}
          THEN ParamsLoop(Tail(entries), params)
          ELSE ParamsLoop(Tail(entries),
                          ParamsSet(params, camelToSnake(key), ParamString(value)))

ParamPerPage == <<"p", "e", "r", "_", "p", "a", "g", "e">>
DefaultPerPage == <<"1", "0", "0">>

filterToParams(filter) ==
  LET params == ParamsLoop(filter, [k \in {} |-> <<>>])
  IN IF ParamPerPage \notin DOMAIN params
     THEN ParamsSet(params, ParamPerPage, DefaultPerPage)
     ELSE params

FilterToParamsCall ==
  /\ call.pc = "idle"
  /\ call' = [call EXCEPT !.pc = "done", !.fn = "filterToParams",
                          !.output = filterToParams(call.input)]
  /\ UNCHANGED <<authVars, pageVars, storeVars>>

FilterInit ==
  /\ QuietInit
  /\ \E f \in FilterObjects : call = [IdleCall EXCEPT !.input = f]

FilterNext == FilterToParamsCall

FilterSpec == FilterInit /\ [][FilterNext]_vars

\* the key/value pairs of a filter object, without their order
PairsOf(filter) == {filter[i] : i \in DOMAIN filter}

\* the parameter name the API documents for each key
SnakeName(key) ==
  IF key = KeyPerPage THEN ParamPerPage
  ELSE IF key = KeyCategoriesExclude
       THEN <<"c", "a", "t", "e", "g", "o", "r", "i", "e", "s", "_",
              "e", "x", "c", "l", "u", "d", "e">>
  ELSE key

\* the pairs that carry a value
Present(filter) ==
  {pr \in PairsOf(filter) : pr[2].kind \notin {"undefined", "null"}}

SetCookieLines ==
  {<<n, v, "path=/; HttpOnly">> : n \in {"sid", "lang", ""}, v \in {"v1", "v2"}}
  \cup {TestSetCookie}

SetCookieLists == UNION {[1..n -> SetCookieLines] : n \in 0..MaxCookies}

\* `${WORDPRESS_TEST_COOKIE_NAME}=${WORDPRESS_TEST_COOKIE_VALUE}`
testCookieHeader == <<<<WORDPRESS_TEST_COOKIE_NAME, WORDPRESS_TEST_COOKIE_VALUE>>>>

\* the header sent with the credential POST
initialCookieHeader(getLines) ==
  mergeCookieHeaders(testCookieHeader, toCookieHeader(getLines))

\* the header loginWithWordPressForm ends with
mergedCookieHeader(getLines, postLines) ==
  mergeCookieHeaders(initialCookieHeader(getLines), toCookieHeader(postLines))

HarvestCookies ==
  /\ call.pc = "idle"
  /\ call' = [call EXCEPT
       !.pc = "done", !.fn = "loginWithWordPressForm",
       !.output = mergedCookieHeader(call.input.get, call.input.post)]
  /\ UNCHANGED <<authVars, pageVars, storeVars>>

CookieInit ==
  /\ QuietInit
  /\ \E g \in SetCookieLists, p \in SetCookieLists :
       call = [IdleCall EXCEPT !.input = [get |-> g, post |-> p]]

CookieNext == HarvestCookies

CookieSpec == CookieInit /\ [][CookieNext]_vars

\* names a response issues
NamesIn(lines) == {lines[i][1] : i \in DOMAIN lines} \ {""}

\* the value of the last line of a response that sets this name
LastValue(lines, name) ==
  lines[CHOOSE i \in DOMAIN lines :
          /\ lines[i][1] = name
          /\ \A j \in DOMAIN lines : lines[j][1] = name => j <= i][2]

\* C15: the merged cookie header holds every name issued by the login-page
\* response or the credential-POST response exactly once; a name the POST
\* response issued carries the POST response's value, any other name the
\* value of the login-page response.
C15_MergedCookiesLaterWins ==
  (call.pc = "done" /\ call.fn = "loginWithWordPressForm")
    => LET get == call.input.get
           post == call.input.post
           merged == call.output
       IN /\ \A i, j \in DOMAIN merged : merged[i][1] = merged[j][1] => i = j
          /\ NamesIn(get) \cup NamesIn(post) \subseteq {merged[i][1] : i \in DOMAIN merged}
          /\ \A i \in DOMAIN merged :
               /\ merged[i][1] \in NamesIn(post)
                    => merged[i][2] = LastValue(post, merged[i][1])
               /\ merged[i][1] \in NamesIn(get) \ NamesIn(post)
                    => merged[i][2] = LastValue(get, merged[i][1])

C15_Witness ==
  /\ call.pc = "done" /\ call.fn = "loginWithWordPressForm"
  /\ call.input.get = <<<<"sid", "v1", "path=/; HttpOnly">>, <<"lang", "v1", "path=/; HttpOnly">>>>
  /\ call.input.post = <<<<"sid", "v2", "path=/; HttpOnly">>>>
  /\ call.output = <<<<WORDPRESS_TEST_COOKIE_NAME, WORDPRESS_TEST_COOKIE_VALUE>>,
                     <<"sid", "v2">>, <<"lang", "v1">>>>

\* ------------------------------------------------------------------------
\* Session lifetime
\* ------------------------------------------------------------------------
\* the step in which loginAction p returns its result
LoginSucceeds(p) == LoginStep(p) /\ login'[p].result = "ok"

\* C16: in the step in which a login succeeds, the maxAge (seconds) of the
\* cookie it writes, times 1000, equals expiresAt of the session it stores
\* minus the time of that step, whatever the bridge configuration.
C16_MaxAgeEqualsTtl ==
  [][ \A p \in LoginProcs :
        LoginSucceeds(p)
          => /\ jar'[p].op = "set"
             /\ jar'[p].maxAge * 1000 = sessionStore'[login'[p].sid].expiresAt - now
    ]_vars

C16_Witness ==
  \E p \in LoginProcs :
    /\ login[p].result = "ok"
    /\ sessionDurationSeconds = 1
    /\ jar[p].op = "set" /\ jar[p].maxAge = 1
    /\ login[p].sid \in DOMAIN sessionStore
    /\ sessionStore[login[p].sid].expiresAt = 2000

\* C17 (as claimed): the session stored by a login expires at the login time
\* plus 1000 times the configured sessionDurationSeconds, for every value the
\* configuration supplies, and at the login time plus 12 hours only when the
\* configuration supplies none.
C17_ExpiryIsNowPlusConfigured ==
  [][ \A p \in LoginProcs :
        LoginSucceeds(p)
          => sessionStore'[login'[p].sid].expiresAt =
               now + 1000 * (IF sessionDurationSeconds = NotConfigured
                             THEN 43200 ELSE sessionDurationSeconds)
    ]_vars

\* C17 (amended): the session stored by a login expires at the login time
\* plus 1000 times the configured sessionDurationSeconds for every configured
\* value other than 0; when no value or the value 0 is configured, it expires
\* 12 hours after the login.
C17_ExpiryIsNowPlusConfiguredNonZero ==
  [][ \A p \in LoginProcs :
        LoginSucceeds(p)
          => sessionStore'[login'[p].sid].expiresAt =
               now + 1000 * (IF sessionDurationSeconds \in {NotConfigured, 0}
                             THEN 43200 ELSE sessionDurationSeconds)
    ]_vars

C17_Witness ==
  \E p \in LoginProcs :
    /\ login[p].result = "ok"
    /\ sessionDurationSeconds = 2
    /\ login[p].sid \in DOMAIN sessionStore
    /\ sessionStore[login[p].sid].expiresAt = 3000
    /\ now = 1000

\* ------------------------------------------------------------------------
\* Input validation
\* ------------------------------------------------------------------------
\* the payloads the claim names: blank user name, empty password, password
\* of more than 512 characters, a field the schema does not know
NamedInvalid(raw) ==
  \/ raw.usernameOrEmail \in {"", "   "}
  \/ raw.password = ""
  \/ Len(raw.password) > 512
  \/ raw.extra # {}

\* C18: a login call with a payload of one of these kinds ends in the step
\* that receives it: no request is sent to the origin, the session store is
\* unchanged, no cookie is written, and the call does not succeed.
C18_ValidationBeforeRequests ==
  [][ \A p \in LoginProcs, raw \in LoginInputs :
        (NamedInvalid(raw) /\ (LoginStart(p, raw) \/ LoginInvalid(p, raw)))
          => /\ login'[p].pc = "done"
             /\ login'[p].result = "BAD_REQUEST"
             /\ login'[p].reqs = <<>>
             /\ sessionStore' = sessionStore
             /\ jar'[p].op = "none"
    ]_vars

C18_Witness ==
  \E p \in LoginProcs :
    /\ login[p].pc = "done" /\ login[p].result = "BAD_REQUEST"
    /\ login[p].reqs = <<>>
    /\ jar[p].op = "none"
    /\ DOMAIN sessionStore # {}

\* ------------------------------------------------------------------------
\* Singular lookups of the REST client and the live loaders built on them
\* ------------------------------------------------------------------------
\* what the origin holds under every endpoint
UpstreamItems == <<[id |-> 1, slug |-> "ann"], [id |-> 2, slug |-> "anna"]>>

LookupIds == {1, 9}
LookupSlugs == {"ann", "an", "nope"}

\* loadEntry filters: id 0 and slug "" stand for a key that is not given
EntryFilters == [id : {0} \cup LookupIds, slug : {""} \cup LookupSlugs]

\* endpoints with a by-slug lookup, and endpoints with a live loader
SlugEndpoints == Endpoints \ {"/users"}
LoaderEndpoints == Endpoints \ {"/tags"}

\* requests the client sends
ByIdRequest(endpoint, id) == [endpoint |-> endpoint, kind |-> "id", id |-> id, term |-> ""]
BySlugRequest(endpoint, slug) == [endpoint |-> endpoint, kind |-> "slug", id |-> 0, term |-> slug]
SearchRequest(endpoint, term) == [endpoint |-> endpoint, kind |-> "search", id |-> 0, term |-> term]
ListRequest(endpoint) == [endpoint |-> endpoint, kind |-> "list", id |-> 0, term |-> ""]

\* the origin's search matches a term inside the slug: "an" and "ann" occur
\* in both slugs it holds
SearchMatches(slug, term) == term = slug \/ term \in {"an", "ann"}

\* the items of a list, filtered
RECURSIVE SelectItems(_, _, _)
SelectItems(items, kind, term) ==
  IF items = <<>> THEN <<>>
  ELSE LET keep == \/ kind = "list"
                   \/ kind = "slug" /\ Head(items).slug = term
                   \/ kind = "search" /\ SearchMatches(Head(items).slug, term)
       IN (IF keep THEN <<Head(items)>> ELSE <<>>)
          \o SelectItems(Tail(items), kind, term)

NotFoundResponse ==
  [ok |-> FALSE, status |-> 404, data |-> <<>>, total |-> {}, totalPages |-> {}]

\* the origin's answer: an item or 404 for /endpoint/id, a list otherwise
OriginAnswer(req) ==
  IF req.kind = "id"
  THEN IF \E i \in DOMAIN UpstreamItems : UpstreamItems[i].id = req.id
       THEN [ok |-> TRUE, status |-> 200,
             data |-> <<UpstreamItems[CHOOSE i \in DOMAIN UpstreamItems :
                                        UpstreamItems[i].id = req.id]>>,
             total |-> {}, totalPages |-> {}]
       ELSE NotFoundResponse
  ELSE LET found == SelectItems(UpstreamItems, req.kind, req.term)
       IN [ok |-> TRUE, status |-> 200, data |-> found,
           total |-> {Len(found)}, totalPages |-> {1}]

\* what fetch can settle to for a request
LookupResponses(req) == {NetworkError, FailedResponse, OriginAnswer(req)}

\* a settled promise of the client
Resolved(value) == [settled |-> "resolved", value |-> value, error |-> ""]
Rejected(error) == [settled |-> "rejected", value |-> <<>>, error |-> error]

\* fetchAPI: fetchAPIPaginated(...).data, or its rejection
fetchAPI(resp) ==
  IF ~resp.ok THEN Rejected(ErrorOf(resp)) ELSE Resolved(resp.data)

\* getPost(id) and its siblings: the body of /endpoint/id as it came
getById(resp) == fetchAPI(resp)

\* variant: an empty list is an error
getBySlug_strict(resp) ==
  IF ~resp.ok \/ resp.data = <<>> THEN Rejected(ErrorOf(resp))
  ELSE Resolved(<<resp.data[1]>>)

\* getPostBySlug(slug) and its siblings: posts[0]; <<>> stands for undefined
getBySlug(resp) ==
  IF fetchAPI(resp).settled = "rejected" THEN fetchAPI(resp)
  ELSE Resolved(IF resp.data = <<>> THEN <<>> ELSE <<resp.data[1]>>)

\* users.find((candidate) => candidate.slug === filter.slug)
RECURSIVE FindBySlug(_, _)
FindBySlug(items, slug) ==
  IF items = <<>> THEN <<>>
  ELSE IF Head(items).slug = slug THEN <<Head(items)>>
  ELSE FindBySlug(Tail(items), slug)

\* the request loadEntry sends for a filter, <<>> when it sends none
EntryRequest(endpoint, filter) ==
  IF filter.id # 0 THEN <<ByIdRequest(endpoint, filter.id)>>
  ELSE IF filter.slug # ""
       THEN (IF endpoint = "/users" THEN <<SearchRequest(endpoint, filter.slug)>>
             ELSE <<BySlugRequest(endpoint, filter.slug)>>)
  ELSE <<>>

\* the item loadEntry holds once the client call settled
EntryLookup(req, filter, resp) ==
  IF req.kind = "id" THEN getById(resp)
  ELSE IF req.kind = "slug" THEN getBySlug(resp)
  ELSE IF fetchAPI(resp).settled = "rejected" THEN fetchAPI(resp)
  ELSE Resolved(FindBySlug(resp.data, filter.slug))

\* variant: the rejection of the client call leaves the loader
loadEntryResult_rethrow(settled) ==
  IF settled.settled = "rejected"
  THEN [kind |-> "rejected", value |-> <<>>, error |-> settled.error]
  ELSE IF settled.value = <<>>
  THEN [kind |-> "error", value |-> <<>>, error |-> "not found"]
  ELSE [kind |-> "entry", value |-> settled.value, error |-> ""]

\* the try/catch of loadEntry: { id, data } or { error }
loadEntryResult(settled) ==
  IF settled.settled = "rejected"
  THEN [kind |-> "error", value |-> <<>>, error |-> settled.error]
  ELSE IF settled.value = <<>>
  THEN [kind |-> "error", value |-> <<>>, error |-> "not found"]
  ELSE [kind |-> "entry", value |-> settled.value, error |-> ""]

\* the try/catch of loadCollection: { entries } or { error }
loadCollectionResult(settled) ==
  IF settled.settled = "rejected"
  THEN [kind |-> "error", value |-> <<>>, error |-> settled.error]
  ELSE [kind |-> "entries", value |-> settled.value, error |-> ""]

\* a call that waits for its request
Pending(fn, endpoint, arg, req) ==
  [pc |-> "await", fn |-> fn, input |-> [endpoint |-> endpoint, arg |-> arg],
   output |-> <<>>, req |-> <<req>>, status |-> {}]

CallOver == call.pc \in {"idle", "done", "rejected"}

\* client.getPost(id), getPage, getMediaItem, getCategory, getTag, getUser
ClientById(endpoint, id) ==
  /\ CallOver
  /\ call' = Pending("getById", endpoint, [id |-> id, slug |-> ""],
                   ByIdRequest(endpoint, id))
  /\ UNCHANGED <<authVars, pageVars, storeVars>>

\* client.getPostBySlug(slug) and its siblings
ClientBySlug(endpoint, slug) ==
  /\ CallOver
  /\ call' = Pending("getBySlug", endpoint, [id |-> 0, slug |-> slug],
                   BySlugRequest(endpoint, slug))
  /\ UNCHANGED <<authVars, pageVars, storeVars>>

\* the request of a client lookup settles
ClientSettles(resp) ==
  /\ call.pc = "await"
  /\ call.fn \in {"getById", "getBySlug", "getCurrentUser", "getSettings"}
  /\ resp \in LookupResponses(call.req[1])
  /\ LET settled == CASE call.fn = "getById" -> getById(resp)
                      [] call.fn = "getBySlug" -> getBySlug(resp)
                      [] OTHER -> fetchAPI(resp)
     IN call' = [call EXCEPT
          !.pc = IF settled.settled = "rejected" THEN "rejected" ELSE "done",
          !.status = {resp.status},
          !.output = [kind |-> IF settled.settled = "rejected" THEN "rejected"
                               ELSE IF settled.value = <<>> THEN "undefined"
                               ELSE "item",
                      value |-> settled.value, error |-> settled.error]]
  /\ UNCHANGED <<authVars, pageVars, storeVars>>

\* config.auth of the client: none, or application-password credentials
ClientAuths == {<<>>, <<<<"basic", "app-password">>>>}

\* the endpoint each authenticated-only method asks for
AuthOnlyEndpoint(fn) == IF fn = "getCurrentUser" THEN "/users/me" ELSE "/settings"

\* client.getCurrentUser() / client.getSettings(): the throw of the async
\* function when the client has no auth, else up to the await of fetchAPI
ClientAuthOnly(fn, auth) ==
  /\ CallOver
  /\ LET started == Pending(fn, AuthOnlyEndpoint(fn), [id |-> 0, slug |-> ""],
                            ByIdRequest(AuthOnlyEndpoint(fn), 1))
     IN call' = IF ~hasAuth(auth)
                THEN [started EXCEPT
                        !.pc = "rejected", !.req = <<>>,
                        !.input = [endpoint |-> @.endpoint, arg |-> @.arg, auth |-> auth],
                        !.output = [kind |-> "rejected", value |-> <<>>,
                                    error |-> "Authentication required"]]
                ELSE [started EXCEPT
                        !.input = [endpoint |-> @.endpoint, arg |-> @.arg, auth |-> auth]]
  /\ UNCHANGED <<authVars, pageVars, storeVars>>

\* loader.loadEntry({ filter }): up to its await, or to its return when the
\* filter has neither id nor slug
LoadEntry(endpoint, filter) ==
  /\ CallOver
  /\ IF EntryRequest(endpoint, filter) = <<>>
     THEN call' = [pc |-> "done", fn |-> "loadEntry",
                   input |-> [endpoint |-> endpoint, arg |-> filter],
                   output |-> loadEntryResult(Resolved(<<>>)),
                   req |-> <<>>, status |-> {}]
     ELSE call' = Pending("loadEntry", endpoint, filter,
                          EntryRequest(endpoint, filter)[1])
  /\ UNCHANGED <<authVars, pageVars, storeVars>>

\* loader.loadCollection({ filter })
LoadCollection(endpoint) ==
  /\ CallOver
  /\ call' = Pending("loadCollection", endpoint, [id |-> 0, slug |-> ""],
                   ListRequest(endpoint))
  /\ UNCHANGED <<authVars, pageVars, storeVars>>

\* the client call inside a loader settles: the rest of the try block, or
\* the catch block
LoaderSettles(resp) ==
  /\ call.pc = "await"
  /\ call.fn \in {"loadEntry", "loadCollection"}
  /\ resp \in LookupResponses(call.req[1])
  /\ LET out == IF call.fn = "loadEntry"
                THEN loadEntryResult(EntryLookup(call.req[1], call.input.arg, resp))
                ELSE loadCollectionResult(fetchAPI(resp))
     IN call' = [call EXCEPT
          !.pc = IF out.kind = "rejected" THEN "rejected" ELSE "done",
          !.status = {resp.status},
          !.output = out]
  /\ UNCHANGED <<authVars, pageVars, storeVars>>

AllLookupRequests ==
  {ByIdRequest(e, i) : e \in Endpoints, i \in LookupIds}
  \cup {BySlugRequest(e, t) : e \in Endpoints, t \in LookupSlugs}
  \cup {SearchRequest(e, t) : e \in Endpoints, t \in LookupSlugs}
  \cup {ListRequest(e) : e \in Endpoints}

AllLookupResponses == UNION {LookupResponses(r) : r \in AllLookupRequests}

LookupInit == QuietInit /\ call = IdleCall

LookupNext ==
  \/ \E e \in Endpoints, i \in LookupIds : ClientById(e, i)
  \/ \E e \in SlugEndpoints, t \in LookupSlugs : ClientBySlug(e, t)
  \/ \E fn \in {"getCurrentUser", "getSettings"}, a \in ClientAuths :
       ClientAuthOnly(fn, a)
  \/ \E resp \in AllLookupResponses : ClientSettles(resp)
  \/ \E e \in LoaderEndpoints, f \in EntryFilters : LoadEntry(e, f)
  \/ \E e \in LoaderEndpoints : LoadCollection(e)
  \/ \E resp \in AllLookupResponses : LoaderSettles(resp)

LookupSpec == LookupInit /\ [][LookupNext]_vars

\* the item a loadEntry filter asks for is the one returned
Answers(filter, item) ==
  IF filter.id # 0 THEN item.id = filter.id ELSE item.slug = filter.slug

\* C19: every loadEntry and loadCollection call resolves, to an entry, to
\* entries or to an { error } object: a request that fails (no response, or
\* a non-OK status), a missing item and a filter with neither id nor slug all
\* give { error }; an entry is the origin's item the filter asks for, and
\* entries are the origin's list, never other content.
C19_LoadersNeverThrow ==
  [][ /\ \A resp \in AllLookupResponses :
           LoaderSettles(resp)
             => /\ call'.pc = "done"
                /\ call'.output.kind \in {"entry", "entries", "error"}
                /\ ~resp.ok => call'.output.kind = "error"
                /\ call'.output.kind = "entry"
                     => /\ call.fn = "loadEntry"
                        /\ \E i \in DOMAIN UpstreamItems :
                             /\ call'.output.value = <<UpstreamItems[i]>>
                             /\ Answers(call.input.arg, UpstreamItems[i])
                /\ call'.output.kind = "entries"
                     => call.fn = "loadCollection" /\ call'.output.value = UpstreamItems
                /\ (call.fn = "loadEntry" /\ resp.ok
                      /\ ~\E i \in DOMAIN UpstreamItems :
                            Answers(call.input.arg, UpstreamItems[i]))
                     => call'.output.kind = "error"
      /\ \A e \in LoaderEndpoints, f \in EntryFilters :
           (LoadEntry(e, f) /\ f.id = 0 /\ f.slug = "")
             => /\ call'.pc = "done"
                /\ call'.output.kind = "error"
                /\ call'.req = <<>>
    ]_vars

C19_Witness ==
  /\ call.pc = "done" /\ call.fn = "loadEntry"
  /\ call.input.arg = [id |-> 9, slug |-> ""]
  /\ call.status = {404}
  /\ call.output.kind = "error"

\* the item a client lookup asks for does not exist at the origin, and the
\* origin itself answered
MissingAnswered ==
  /\ call.pc \in {"done", "rejected"}
  /\ call.fn \in {"getById", "getBySlug"}
  /\ IF call.fn = "getById"
     THEN \A i \in DOMAIN UpstreamItems : UpstreamItems[i].id # call.input.arg.id
     ELSE \A i \in DOMAIN UpstreamItems : UpstreamItems[i].slug # call.input.arg.slug
  /\ call.status \subseteq {200, 404}

\* C20 (as claimed): a by-slug or by-id lookup of an item the origin does not
\* hold resolves to an absent value and does not reject.
C20_MissingIsAbsent ==
  MissingAnswered => (call.pc = "done" /\ call.output.kind = "undefined")

\* C20 (amended): a by-slug lookup of an item the origin does not hold
\* resolves to undefined; a by-id lookup of such an item rejects with the
\* error made from the origin's 404.
C20_MissingSlugAbsentMissingIdRejects ==
  MissingAnswered
    => IF call.fn = "getBySlug"
       THEN call.pc = "done" /\ call.output.kind = "undefined"
       ELSE /\ call.pc = "rejected"
            /\ call.status = {404}
            /\ call.output.error = "WordPress API error"

C20_Witness ==
  /\ call.pc = "done" /\ call.fn = "getBySlug"
  /\ call.input.arg.slug = "nope"
  /\ call.status = {200}
  /\ call.output.kind = "undefined"

\* ------------------------------------------------------------------------
\* Static loaders (loaders/static.ts): load({ store, logger })
\* ------------------------------------------------------------------------
\* the repository holds two bodies of the static loaders: one awaits
\* client.getAllPosts(), the other client.getPosts({ per_page, ...params })
LoaderVersions == {"getAll", "getPage"}

\* the five static loaders have the same body: the first and the last
StaticEndpoints == {"/posts", "/tags"}

\* config.perPage; 0: not set
ConfigPerPage == {0, 50}

\* String(post.id), the entry's key, and the entry
StoreEntry(item, data) == [id |-> NumberToString(item), data |-> data]

\* store.set(entry): a Map, so an entry with the same id is replaced
storeSet(st, entry) == (entry.id :> entry) @@ st

\* a store a previous build left: an older copy of item 1 and an item the
\* origin no longer holds
StaleStore ==
  storeSet(storeSet(EmptyStore, StoreEntry(1, 0)), StoreEntry(999, 999))

InitialStores == {EmptyStore, StaleStore}

\* for (const post of posts) store.set({ id: String(post.id), data: post })
\* the entries the loop sets, by halves of the list: an entry of the second
\* half replaces one of the first half with the same id
RECURSIVE LoopEntries(_)
LoopEntries(items) ==
  IF Len(items) = 1
  THEN storeSet(EmptyStore, StoreEntry(items[1], items[1]))
  ELSE LET half == Len(items) \div 2
       IN LoopEntries(SubSeq(items, half + 1, Len(items)))
            @@ LoopEntries(SubSeq(items, 1, half))

StoreSetAll(st, items) ==
  IF items = <<>> THEN st ELSE LoopEntries(items) @@ st

\* getPosts({ per_page: String(config.perPage || 100) }): one request, for
\* the first page
staticParams(endpoint, perPage) ==
  [endpoint |-> endpoint, search |-> "", page |-> 1,
   per_page |-> IF perPage = 0 THEN PER_PAGE ELSE perPage]

\* variant: the store is cleared before the fetch
loadSettled_clearFirst(st, fetched) ==
  IF fetched.settled = "rejected"
  THEN [store |-> EmptyStore, pc |-> "rejected", error |-> fetched.error]
  ELSE [store |-> StoreSetAll(EmptyStore, fetched.value), pc |-> "done", error |-> ""]

\* the body of load after its await: store.clear() and the store.set loop,
\* or the catch block's rethrow
loadSettled(st, fetched) ==
  IF fetched.settled = "rejected"
  THEN [store |-> st, pc |-> "rejected", error |-> fetched.error]
  ELSE [store |-> StoreSetAll(EmptyStore, fetched.value), pc |-> "done", error |-> ""]

\* loader.load({ store, logger }) up to its await; the version that calls
\* getAll*() does not read config.perPage
StaticLoadStart(version, endpoint, perPage) ==
  /\ CallOver
  /\ version = "getAll" => perPage = 0
  /\ getAll.pc \in {"idle", "done", "failed"}
  /\ call' = [pc |-> "await", fn |-> "load",
              input |-> [endpoint |-> endpoint, version |-> version,
                         perPage |-> perPage],
              output |-> [error |-> "", count |-> 0]]
  /\ getAll' = IF version = "getAll"
               THEN getAllFirst(endpoint, IdleGetAll.filter)
               ELSE IdleGetAll
  /\ UNCHANGED <<authVars, upstreamTotal, storeVars>>

\* the awaited getAll* call has settled
StaticGetAllSettles ==
  /\ call.pc = "await" /\ call.fn = "load"
  /\ call.input.version = "getAll"
  /\ getAll.pc \in {"done", "failed"}
  /\ LET fetched == IF getAll.pc = "done" THEN Resolved(getAll.all)
                    ELSE Rejected(getAll.error)
         out == loadSettled(dataStore, fetched)
     IN /\ dataStore' = out.store
        /\ call' = [call EXCEPT !.pc = out.pc,
                                !.output = [error |-> out.error,
                                            count |-> Len(fetched.value)]]
  /\ UNCHANGED <<authVars, pageVars, originPosts>>

\* the awaited single-page get* call has settled
StaticPageSettles(resp) ==
  /\ call.pc = "await" /\ call.fn = "load"
  /\ call.input.version = "getPage"
  /\ resp \in ListResponses(upstreamTotal,
                            staticParams(call.input.endpoint, call.input.perPage))
  /\ LET fetched == IF resp.ok THEN Resolved(fetchAPIPaginated(resp).data)
                    ELSE Rejected(ErrorOf(resp))
         out == loadSettled(dataStore, fetched)
     IN /\ dataStore' = out.store
        /\ call' = [call EXCEPT !.pc = out.pc,
                                !.output = [error |-> out.error,
                                            count |-> Len(fetched.value)]]
  /\ UNCHANGED <<authVars, pageVars, originPosts>>

StaticInit ==
  /\ AuthInit({"form"}, {0})
  /\ upstreamTotal \in Totals
  /\ getAll = IdleGetAll
  /\ call = IdleCall
  /\ dataStore \in InitialStores
  /\ originPosts = NoPosts

StaticResponses ==
  UNION {ListResponses(upstreamTotal, staticParams(e, pp)) :
           e \in StaticEndpoints, pp \in ConfigPerPage}

StaticNext ==
  \/ \E v \in LoaderVersions, e \in StaticEndpoints, pp \in ConfigPerPage :
       StaticLoadStart(v, e, pp)
  \/ \E resp \in ListResponses(upstreamTotal,
                   getAllParams(getAll.endpoint, getAll.filter, getAll.page)) :
       GetAllResponse(resp)
  \/ \E t \in Totals : UpstreamChange(t)
  \/ StaticGetAllSettles
  \/ \E resp \in StaticResponses : StaticPageSettles(resp)

StaticSpec == StaticInit /\ [][StaticNext]_vars

\* the load in `call` completed, and what it read was the origin's own
\* answer to an unchanged collection
LoadedGenuine ==
  /\ call.pc = "done" /\ call.fn = "load"
  /\ call.input.version = "getAll"
       => getAll.stable /\ {} \notin getAll.seenPages

\* the store holds one entry per item of the origin, under String(id)
StoreMirrors(total) ==
  /\ DOMAIN dataStore = {NumberToString(i) : i \in 1..total}
  /\ \A i \in 1..total :
       dataStore[NumberToString(i)] = [id |-> NumberToString(i), data |-> i]

\* C21: after a static loader's load completed, the store holds exactly one
\* entry for every item the origin holds for the resource, over all result
\* pages, keyed by the decimal string of the item's id, and none of the
\* entries it held before.
C21_StoreMirrorsUpstream ==
  LoadedGenuine => StoreMirrors(upstreamTotal)

\* C28: a load whose fetch fails leaves the store as it was and rejects with
\* the fetch's error; the store changes only in the step that follows a
\* complete, successful fetch.
C28_FailedLoadKeepsStore ==
  [][ /\ dataStore' # dataStore
             => /\ call.pc = "await" /\ call'.pc = "done"
                /\ call.input.version = "getAll" => getAll.pc = "done"
      /\ (StaticGetAllSettles /\ getAll.pc = "failed")
             => /\ dataStore' = dataStore
                /\ call'.pc = "rejected"
                /\ call'.output.error = getAll.error
      /\ \A resp \in StaticResponses :
           (StaticPageSettles(resp) /\ ~resp.ok)
             => /\ dataStore' = dataStore
                /\ call'.pc = "rejected"
                /\ call'.output.error = ErrorOf(resp)
    ]_vars

C28_Witness ==
  /\ call.pc = "rejected" /\ call.fn = "load"
  /\ call.input.version = "getAll"
  /\ getAll.page > 1
  /\ dataStore = StaleStore

\* ------------------------------------------------------------------------
\* Write actions (actions/post/create.ts, update.ts, delete.ts) and the
\* read back of a created post
\* ------------------------------------------------------------------------
\* JSON values: a string, the { rendered } object of a read, undefined
WUndefined == [kind |-> "undefined", val |-> <<>>]
WString(s) == [kind |-> "string", val |-> <<s>>]
WRendered(s) == [kind |-> "object", val |-> <<"rendered", s>>]

FieldNames == {"title", "status", "meta"}

\* the fields the read schema declares as { rendered: string }
RenderedFields == {"title"}

\* the input of executeCreatePost / executeUpdatePost: any field may be left out
WriteInputs ==
  [title : {WUndefined, WString("Hello")},
   status : {WUndefined, WString("publish")},
   meta : {WUndefined, WString("readback")}]

WriteIds == 1..MaxPosts

\* variant: only the title is forwarded
createBody_titleOnly(fields) ==
  [k \in {f \in DOMAIN fields : f = "title" /\ fields[f] # WUndefined} |-> fields[k]]

\* for (const [key, value] of Object.entries(input))
\*   if (value !== undefined) body[key] = value
createBody(fields) ==
  [k \in {f \in DOMAIN fields : fields[f] # WUndefined} |-> fields[k]]

\* what the origin stores for a new post: the body, and its defaults for the
\* fields the body leaves out
OriginDefaults ==
  [title |-> WString(""), status |-> WString("draft"), meta |-> WString("")]

OriginMerge(stored, body) ==
  [k \in FieldNames |-> IF k \in DOMAIN body THEN body[k] ELSE stored[k]]

\* the JSON the origin answers with for a stored post (view context)
OriginView(id, stored) ==
  [k \in FieldNames |->
     IF k \in RenderedFields THEN WRendered(stored[k].val[1]) ELSE stored[k]]
  @@ [id |-> id]

\* responses to a write request: none (fetch rejects), a gateway's HTML error
\* page, a WordPress error object, or the origin's answer
NoResponse ==
  [arrived |-> FALSE, ok |-> FALSE, status |-> 0, json |-> FALSE, wpError |-> FALSE]
HtmlError ==
  [arrived |-> TRUE, ok |-> FALSE, status |-> 502, json |-> FALSE, wpError |-> FALSE]
JsonError(status, wpError) ==
  [arrived |-> TRUE, ok |-> FALSE, status |-> status, json |-> TRUE, wpError |-> wpError]
OkResponse(status) ==
  [arrived |-> TRUE, ok |-> TRUE, status |-> status, json |-> TRUE, wpError |-> FALSE]

\* the origin's own answer to the request of `fn`
OriginWriteAnswer(fn, input, origin) ==
  CASE fn = "executeCreatePost" -> OkResponse(201)
    [] fn \in {"executeUpdatePost", "executeDeletePost", "getPost"} ->
         IF input.id \in DOMAIN origin.posts THEN OkResponse(200)
         ELSE JsonError(404, TRUE)

WriteResponses(fn, input, origin) ==
  {NoResponse, HtmlError, JsonError(401, TRUE), JsonError(500, FALSE),
   OriginWriteAnswer(fn, input, origin)}

\* the origin after it served the request
OriginApply(fn, input, origin) ==
  CASE fn = "executeCreatePost" ->
         [next |-> origin.next + 1,
          posts |-> (origin.next :> OriginMerge(OriginDefaults, createBody(input.fields)))
                      @@ origin.posts]
    [] fn = "executeUpdatePost" ->
         [origin EXCEPT !.posts[input.id] = OriginMerge(@, createBody(input.fields))]
    [] fn = "executeDeletePost" ->
         IF input.force
         THEN [origin EXCEPT !.posts = [i \in DOMAIN @ \ {input.id} |-> @[i]]]
         ELSE [origin EXCEPT !.posts[input.id].status = WString("trash")]
    [] OTHER -> origin

\* ActionError.statusToCode(response.status)
statusToCode(status) ==
  CASE status = 400 -> "BAD_REQUEST"
    [] status = 401 -> "UNAUTHORIZED"
    [] status = 404 -> "NOT_FOUND"
    [] status = 502 -> "BAD_GATEWAY"
    [] OTHER -> "INTERNAL_SERVER_ERROR"

NoPost == [k \in FieldNames |-> WUndefined] @@ [id |-> 0]

Thrown(kind, code) ==
  [settled |-> "rejected", kind |-> kind, code |-> code, id |-> 0,
   post |-> NoPost, deleted |-> FALSE]

Returned(id, post, deleted) ==
  [settled |-> "resolved", kind |-> "", code |-> "", id |-> id,
   post |-> post, deleted |-> deleted]

\* the part the three functions share: await fetch, await response.json(),
\* if (!response.ok) throw new ActionError(...)
writeFailure(resp) ==
  IF ~resp.arrived THEN Thrown("TypeError", "")
  ELSE IF ~resp.json THEN Thrown("SyntaxError", "")
  ELSE Thrown("ActionError", statusToCode(resp.status))

\* executeCreatePost / executeUpdatePost after the request: the parsed post
executeWritePost(resp, id, origin) ==
  IF ~(resp.arrived /\ resp.json /\ resp.ok) THEN writeFailure(resp)
  ELSE Returned(id, OriginView(id, origin.posts[id]), FALSE)

\* executeDeletePost after the request: { id, deleted }
executeDeletePost(resp, input) ==
  IF ~(resp.arrived /\ resp.json /\ resp.ok) THEN writeFailure(resp)
  ELSE Returned(input.id, NoPost, input.force)

\* getPost(id) over the origin of the write actions
readPost(resp, id, origin) ==
  IF ~resp.arrived THEN Thrown("TypeError", "")
  ELSE IF ~resp.ok THEN Thrown("Error", "WordPress API error")
  ELSE IF ~resp.json THEN Thrown("SyntaxError", "")
  ELSE Returned(id, OriginView(id, origin.posts[id]), FALSE)

WriteCall(fn, id, fields, force) ==
  [pc |-> "await", fn |-> fn,
   input |-> [id |-> id, fields |-> fields, force |-> force],
   output |-> Returned(0, NoPost, FALSE), status |-> 0, stable |-> TRUE]

\* executeCreatePost(config, input) up to its await
CreatePost(fields) ==
  /\ CallOver
  /\ originPosts.next <= MaxPosts
  /\ call' = WriteCall("executeCreatePost", 0, fields, FALSE)
  /\ UNCHANGED <<authVars, pageVars, storeVars>>

\* executeUpdatePost(config, { id, ...fields }) up to its await
UpdatePost(id, fields) ==
  /\ CallOver
  /\ call' = WriteCall("executeUpdatePost", id, fields, FALSE)
  /\ UNCHANGED <<authVars, pageVars, storeVars>>

\* executeDeletePost(config, { id, force }) up to its await
DeletePost(id, force) ==
  /\ CallOver
  /\ call' = WriteCall("executeDeletePost", id, [k \in FieldNames |-> WUndefined], force)
  /\ UNCHANGED <<authVars, pageVars, storeVars>>

\* the request of a write settles; the origin changes when it served it
WriteSettles(resp) ==
  /\ call.pc = "await"
  /\ call.fn \in {"executeCreatePost", "executeUpdatePost", "executeDeletePost"}
  /\ resp \in WriteResponses(call.fn, call.input, originPosts)
  /\ LET after == IF resp.arrived /\ resp.json /\ resp.ok
                  THEN OriginApply(call.fn, call.input, originPosts)
                  ELSE originPosts
         id == IF call.fn = "executeCreatePost" THEN originPosts.next
               ELSE call.input.id
         out == IF call.fn = "executeDeletePost"
                THEN executeDeletePost(resp, call.input)
                ELSE executeWritePost(resp, id, after)
     IN /\ originPosts' = after
        /\ call' = [call EXCEPT
             !.pc = IF out.settled = "rejected" THEN "rejected" ELSE "done",
             !.status = resp.status,
             !.output = out]
  /\ UNCHANGED <<authVars, pageVars, dataStore>>

\* the caller of a finished executeCreatePost reads the post back:
\* client.getPost(post.id) up to its await
ReadBack ==
  /\ call.pc = "done" /\ call.fn = "executeCreatePost"
  /\ call' = [call EXCEPT !.pc = "await", !.fn = "getPost",
                          !.input.id = call.output.id]
  /\ UNCHANGED <<authVars, pageVars, storeVars>>

ReadBackSettles(resp) ==
  /\ call.pc = "await" /\ call.fn = "getPost"
  /\ resp \in {NoResponse, OriginWriteAnswer("getPost", call.input, originPosts)}
  /\ LET out == readPost(resp, call.input.id, originPosts)
     IN call' = [call EXCEPT
          !.pc = IF out.settled = "rejected" THEN "rejected" ELSE "done",
          !.output = out]
  /\ UNCHANGED <<authVars, pageVars, storeVars>>

\* another client of the origin edits or removes the post between the
\* caller's create and its read
OriginEdit(fn, id, fields) ==
  /\ call.fn \in {"executeCreatePost", "getPost"}
  /\ call.pc \in {"done", "await"}
  /\ call.stable
  /\ id \in DOMAIN originPosts.posts
  /\ originPosts' = OriginApply(fn, [id |-> id, fields |-> fields, force |-> TRUE],
                                originPosts)
  /\ call' = [call EXCEPT !.stable = FALSE]
  /\ UNCHANGED <<authVars, pageVars, dataStore>>

AllWriteResponses ==
  {NoResponse, HtmlError, JsonError(401, TRUE), JsonError(500, FALSE),
   JsonError(404, TRUE), OkResponse(200), OkResponse(201)}

WriteInit ==
  /\ AuthInit({"form"}, {0})
  /\ upstreamTotal = 0
  /\ getAll = IdleGetAll
  /\ call = IdleCall
  /\ dataStore = EmptyStore
  /\ originPosts = NoPosts

WriteNext ==
  \/ \E f \in WriteInputs : CreatePost(f)
  \/ \E i \in WriteIds, f \in WriteInputs : UpdatePost(i, f)
  \/ \E i \in WriteIds, force \in BOOLEAN : DeletePost(i, force)
  \/ \E resp \in AllWriteResponses : WriteSettles(resp)
  \/ ReadBack
  \/ \E resp \in AllWriteResponses : ReadBackSettles(resp)
  \/ \E fn \in {"executeUpdatePost", "executeDeletePost"}, i \in WriteIds,
        f \in WriteInputs : OriginEdit(fn, i, f)

WriteSpec == WriteInit /\ [][WriteNext]_vars

\* C22: every failure of executeCreatePost, executeUpdatePost or
\* executeDeletePost (no response, or a non-OK response with any body) is
\* thrown as an ActionError whose code is statusToCode of the HTTP status.
C22_FailuresAreActionErrors ==
  (call.pc = "rejected"
     /\ call.fn \in {"executeCreatePost", "executeUpdatePost", "executeDeletePost"})
    => /\ call.output.kind = "ActionError"
       /\ call.output.code = statusToCode(call.status)

\* the caller's read of the post it created has returned, and nobody else
\* wrote to the post in between
ReadBackDone ==
  /\ call.fn = "getPost" /\ call.pc = "done"
  /\ call.stable

C24_NoAuthNoRequest ==
  (call.fn \in {"getCurrentUser", "getSettings"} /\ call.input.auth = <<>>)
    => /\ call.pc = "rejected"
       /\ call.output.error = "Authentication required"
       /\ call.req = <<>>
       /\ call.status = {}

C24_Witness ==
  /\ call.fn = "getSettings" /\ call.input.auth = <<>>
  /\ call.pc = "rejected"
  /\ call.req = <<>>

\* ------------------------------------------------------------------------
\* Sessions under interleaved calls
\* ------------------------------------------------------------------------
\* no step of a resolveUserBySessionId call adds a key to the store
NoEntryPutBack == DOMAIN sessionStore' \subseteq DOMAIN sessionStore

\* C25: resolveUserBySessionId returns a user only if the session is present
\* and unexpired in the store when the call returns (a logout or the expiry
\* during the await of the lookup makes it return null), and no step of the
\* call puts an entry back.
C25_UserOnlyIfStillPresent ==
  [][ \A r \in ResolveProcs :
        /\ \A s \in SessionIdArgs : ResolveStart(r, s) => NoEntryPutBack
        /\ \A u \in {0} \cup Users :
             ResolveResponse(r, u)
               => /\ NoEntryPutBack
                  /\ resolve'[r].result # 0
                       => /\ resolve[r].arg \in DOMAIN sessionStore'
                          /\ ~isSessionExpired(sessionStore'[resolve[r].arg], now')
    ]_vars

\* C26: a stored session is never modified: as long as its key is in the
\* store its expiresAt, userId and credentials are those it was created with;
\* so a read (getSession, or the one resolveUserBySessionId starts with) at a
\* time at or after expiresAt returns null and removes the entry, and a read
\* before expiresAt of an entry still in the store returns it and keeps it.
C26_SessionsAreImmutable ==
  [][ /\ \A s \in DOMAIN sessionStore \cap DOMAIN sessionStore' :
           sessionStore'[s] = sessionStore[s]
      /\ \A s \in SessionIds :
           (GetSession(s) \/ \E r \in ResolveProcs : ResolveStart(r, s))
             => IF s \in DOMAIN sessionStore /\ now < sessionStore[s].expiresAt
                THEN /\ getSessionValue(sessionStore, s, now) = sessionStore[s]
                     /\ s \in DOMAIN sessionStore'
                ELSE /\ getSessionValue(sessionStore, s, now) = NullSession
                     /\ s \notin DOMAIN sessionStore'
      /\ \A r \in ResolveProcs, s \in SessionIds :
           ResolveStart(r, s)
             => resolve'[r].session = getSessionValue(sessionStore, s, now)
    ]_vars

\* a session read after time has passed since its creation and before its
\* expiry, then resolved successfully: it is still in the store as created
C26_Witness ==
  \E r \in ResolveProcs :
    /\ resolve[r].pc = "done" /\ resolve[r].result # 0
    /\ resolve[r].arg \in DOMAIN sessionStore
    /\ sessionStore[resolve[r].arg].expiresAt > now
    /\ sessionStore[resolve[r].arg].expiresAt < now + NormalizedDuration * MsPerSecond

\* C29: a successful login adds exactly one entry, under an id that is not a
\* key of the store, with the entry's id equal to its key, and leaves every
\* other entry as it was; a logout of one id leaves every other entry in the
\* store, unchanged and readable.
C29_LoginAddsOneFreshEntry ==
  [][ /\ \A p \in LoginProcs :
           LoginSucceeds(p)
             => LET id == login'[p].sid
                IN /\ id \notin DOMAIN sessionStore
                   /\ DOMAIN sessionStore' = DOMAIN sessionStore \cup {id}
                   /\ sessionStore'[id].id = id
                   /\ \A k \in DOMAIN sessionStore : sessionStore'[k] = sessionStore[k]
      /\ \A s \in SessionIdArgs :
           (DeleteSession(s) \/ ClearAuthentication(0, s))
             => \A k \in DOMAIN sessionStore \ {s} :
                  /\ k \in DOMAIN sessionStore'
                  /\ sessionStore'[k] = sessionStore[k]
                  /\ getSessionValue(sessionStore', k, now')
                       = getSessionValue(sessionStore, k, now)
    ]_vars

\* two sessions of the same user are in the store together
C29_Witness ==
  \E a, b \in DOMAIN sessionStore :
    /\ a # b
    /\ sessionStore[a].userId = sessionStore[b].userId

\* ------------------------------------------------------------------------
\* Termination of getAll*
\* ------------------------------------------------------------------------
\* every awaited fetch settles: it resolves with a response or rejects
PageLiveSpec ==
  PageSpec /\ WF_vars(\E resp \in ListResponses(upstreamTotal,
                         getAllParams(getAll.endpoint, getAll.filter, getAll.page)) :
                        GetAllResponse(resp))

Max(a, b) == IF a > b THEN a ELSE b

\* the largest total-pages value the origin reports for a list of at most
\* MaxTotal items
MaxPages == LastPage(MaxTotal, PER_PAGE)

\* C27: a getAll* call against an origin whose total-pages value is bounded
\* ends (returns or rejects); it has sent at least one request; each settled
\* request moves the page counter up by one and a further request is sent
\* only for a page up to the total-pages value just read; a call all of whose
\* responses reported the same value N has sent max(1, N) requests; a first
\* response whose X-WP-TotalPages is missing or 0 ends the call after that one
\* request with that page's items.
C27_GetAllTerminates ==
  /\ (getAll.pc = "await") ~> (getAll.pc \in {"done", "failed"})
  /\ [](getAll.pc # "idle" => Len(getAll.reqs) >= 1 /\ Len(getAll.reqs) <= MaxPages + 1)
  /\ [](getAll.pc = "done" =>
          \A n \in 0..(MaxPages + 1) :
            getAll.seenPages = {{n}} => Len(getAll.reqs) = Max(1, n))
  /\ [][ \A resp \in ListResponses(upstreamTotal,
                       getAllParams(getAll.endpoint, getAll.filter, getAll.page)) :
           (GetAllResponse(resp) /\ resp.ok)
             => /\ getAll'.page = getAll.page + 1
                /\ getAll'.pc = "await"
                     => /\ getAll'.page <= parseHeader(resp.totalPages)
                        /\ getAll'.reqs = Append(getAll.reqs, getAll'.page)
                /\ (getAll.page = 1 /\ resp.totalPages \in {{}, {0}})
                     => /\ getAll'.pc = "done"
                        /\ getAll'.reqs = <<1>>
                        /\ getAll'.all = resp.data
     ]_vars

\* the origin holds more than one page, the header is missing from the first
\* response: the call returned the first page after one request
C27_Witness ==
  /\ getAll.pc = "done"
  /\ getAll.seenPages = {{}}
  /\ getAll.reqs = <<1>>
  /\ Len(getAll.all) = PER_PAGE
  /\ upstreamTotal > PER_PAGE

\* ------------------------------------------------------------------------
\* Two login requests in flight together
\* ------------------------------------------------------------------------
PairProcs == {1, 2}

PairInputs ==
  { RawInput("alice@wp.test", "pwA", {}),
    RawInput("bob@wp.test", "pwB", {}),
    RawInput("alice@wp.test", "bad", {}) }

PairInit ==
  /\ variant \in Variants
  /\ sessionDurationSeconds = 0
  /\ now = 0
  /\ sessionStore = [id \in {} |-> NullSession]
  /\ minted = 0
  /\ login = [p \in PairProcs |-> IdleLogin]
  /\ resolve = [r \in ResolveProcs |-> IdleResolve]
  /\ jar = [c \in PairProcs \cup {0} |-> NoCookie]
  /\ upstreamTotal = 0
  /\ getAll = IdleGetAll
  /\ call = IdleCall
  /\ dataStore = EmptyStore
  /\ originPosts = NoPosts

PairNext ==
  \/ \E p \in PairProcs, raw \in PairInputs : LoginStart(p, raw)
  \/ \E p \in PairProcs, resp \in GetResponses : LoginGetResponse(p, resp)
  \/ \E p \in PairProcs :
       \E resp \in PostResponses(login[p].input) : LoginPostResponse(p, resp)
  \/ \E p \in PairProcs, user \in {0} \cup Users : LoginMeResponse(p, user)
  \/ \E s \in SessionIdArgs : ClearAuthentication(0, s)

PairSpec == PairInit /\ [][PairNext]_vars

\* C30: a step of one loginAction execution leaves the locals and the
\* response cookies of the other execution as they were; the cookie header
\* an execution carries after its POST is the merge of its own header with
\* the cookies of its own response; the session an execution creates stores
\* the header that execution assembled, and its userId is the user the
\* execution's own current-user call returned, the owner of the credentials
\* this execution submitted.
C30_NoSharedHandshakeState ==
  [][ \A p \in PairProcs :
        /\ LoginStep(p)
             => \A q \in PairProcs \ {p} : login'[q] = login[q] /\ jar'[q] = jar[q]
        /\ \A resp \in PostResponses(login[p].input) :
             (LoginPostResponse(p, resp) /\ login'[p].pc = "awaitMe")
               => login'[p].header =
                    mergeCookieHeaders(login[p].header, toCookieHeader(resp.setCookie))
        /\ LoginSucceeds(p)
             => LET session == sessionStore'[login'[p].sid]
                IN /\ session.cred = login[p].header
                   /\ session.userId = OriginAccepts(login[p].header)
                   /\ session.userId = OriginUserOf(login[p].input)
                   /\ login'[p].userId = session.userId
    ]_vars

\* one execution has created its session while the other, started for the
\* other user, is suspended at its current-user call with its own cookies
C30_Witness ==
  \E p, q \in PairProcs :
    /\ p # q
    /\ login[p].result = "ok"
    /\ login[p].sid \in DOMAIN sessionStore
    /\ login[q].pc = "awaitMe"
    /\ OriginAccepts(login[q].header) \notin {0, sessionStore[login[p].sid].userId}

====
